---- MODULE Spec2Model ----
(***************************************************************************)
(* Conversion orchestrator (VideoConverterPage: converterReducer,          *)
(* initializeFFmpeg, handleConvert, handleRetry, handleReset) and the      *)
(* transcoding engine adapter (FFmpegServiceImpl: initialize, isLoaded,    *)
(* convertToGif, terminate) of the video-to-GIF converter.                 *)
(*                                                                         *)
(* One step of the model is one browser task: a user event, a timer, or    *)
(* the settlement of an awaited engine operation, together with every      *)
(* microtask continuation it triggers (promise reactions run to completion *)
(* before the next task).  Time is in milliseconds; a timer is kept by     *)
(* the time left until it fires.                                           *)
(***************************************************************************)
EXTENDS Integers, Sequences, FiniteSets, TLC

\* ---------------------------------------------------------------- bounds
MaxFiles      == 1        \* distinct source files the user can select
MaxConverts   == 3        \* handleConvert invocations that pass the file guard
MaxPageConverts == 2      \* of them in Spec, where timers fire and the page remounts
MaxActive     == 2        \* handleConvert invocations or engine calls pending at once
MaxLoads      == 2        \* engine load attempts started by initialize()
MaxRemounts   == 1        \* page unmount / remount cycles
MaxCalls      == 3        \* initialize() calls made by other callers of the service
MaxSessionConverts == 1   \* presses of Convert in one editing session
MaxSessionRetries  == 1   \* presses of Retry in one editing session
MaxProgressConverts == 2  \* presses of Convert while the progress reports are followed
MaxUnreadyConverts == 2   \* Convert presses in SpecUnready
MaxSeconds    == 60       \* the times formatted and parsed back go up to this many seconds
MaxEdits      == 1        \* settings the user has changed from their defaults at a time

MaxNameLen    == 3        \* characters of a source file name
MinWidth      == 100      \* the widths whose height is derived and converted back
MaxWidth      == 1920

\* ------------------------------------------------------ program constants
LOAD_TIMEOUT       == 10000
CONVERSION_TIMEOUT == 5 * 60 * 1000
PROGRESS_THROTTLE  == 100

Files    == 1..MaxFiles
JobIds   == 1..MaxConverts
LoadIds  == 1..MaxLoads
CallIds  == 1..MaxCalls

INPUT_FILE  == "input.mp4"
OUTPUT_FILE == "output.gif"

\* Progress values the log listener can compute: min(100 * current/duration, 100)
ProgressValues == {50}

\* --------------------------------------------------------------- messages
\* Error messages are kept by name; Keywords(m) is the set of the substrings
\* the two classifiers test with String.includes that the message contains.
MSG_LOAD_TIMEOUT == "FFmpeg initialization timed out"
MSG_FETCH        == "Failed to fetch"
MSG_WASM         == "WebAssembly is not defined"
MSG_ENGINE       == "engine error"
MSG_OOM          == "out of memory"
MSG_NULL         == "Cannot read properties of null"
MSG_NOT_INIT     == "FFmpeg is not initialized. Please call initialize() first."
MSG_CONV_TIMEOUT == "Conversion timed out after 5 minutes. Please try with a shorter video or reduce the quality settings."
MSG_INIT_SLOW    == "Failed to initialize FFmpeg. The video processing library took too long to load. Please check your internet connection and try again."
MSG_INIT_NET     == "Failed to initialize FFmpeg. Could not download the video processing library. Please check your internet connection and try again."
MSG_INIT_WASM    == "Failed to initialize FFmpeg. Your browser does not support WebAssembly, which is required for video processing. Please use a modern browser."
MSG_INIT_OTHER   == "Failed to initialize FFmpeg. engine error"
MSG_UI_NET       == "Failed to load video processing library due to network issues. Please check your internet connection and try again."
MSG_UI_TIMEOUT   == "Loading video processing library timed out. Please check your internet connection and try again."
MSG_UI_MEMORY    == "Not enough memory to process this video. Try reducing the video dimensions, quality settings, or use a shorter video clip."
MSG_UI_CODEC     == "This video format or codec may not be supported. Please try converting the video to MP4 format first, or try a different video file."
MSG_UI_CORRUPT   == "The video file appears to be corrupted or invalid. Please try a different video file."
MSG_UI_CANCEL    == "Conversion was cancelled. Please try again."
MSG_FAIL_ENGINE  == "Video conversion failed: engine error. Please try a different video file or adjust the settings."
MSG_FAIL_OOM     == "Video conversion failed: out of memory. Please try a different video file or adjust the settings."
MSG_FAIL_NULL    == "Video conversion failed: Cannot read properties of null. Please try a different video file or adjust the settings."
MSG_FAIL_FETCH   == "Video conversion failed: Failed to fetch. Please try a different video file or adjust the settings."

Keywords(m) ==
  CASE m = MSG_LOAD_TIMEOUT -> {"timed out"}
    [] m = MSG_FETCH        -> {"fetch"}
    [] m = MSG_WASM         -> {"WebAssembly"}
    [] m = MSG_OOM          -> {"memory", "out of memory"}
    [] m = MSG_CONV_TIMEOUT -> {"timed out"}
    [] m = MSG_UI_NET       -> {"network"}
    [] m = MSG_UI_TIMEOUT   -> {"timed out"}
    [] m = MSG_UI_MEMORY    -> {"memory"}
    [] m = MSG_UI_CODEC     -> {"format", "codec"}
    [] m = MSG_UI_CORRUPT   -> {"corrupted", "invalid"}
    [] m = MSG_INIT_WASM    -> {"WebAssembly"}
    [] m = MSG_FAIL_OOM     -> {"memory", "out of memory"}
    [] m = MSG_FAIL_FETCH   -> {"fetch"}
    [] OTHER                -> {}

includes(m, kw) == kw \in Keywords(m)

\* ------------------------------------------------------------------ state
VARIABLES
  state,        \* ConverterState of the mounted page (useReducer)
  ffmpeg,       \* FFmpegServiceImpl.ffmpeg: 0 = null, else the load attempt that created it
  loaded,       \* FFmpegServiceImpl.loaded
  initPromise,  \* FFmpegServiceImpl.initPromise: 0 = null, else the load attempt it belongs to
  loads,        \* the async bodies started by initialize(), by attempt
  nLoads,       \* attempts started so far
  jobs,         \* handleConvert invocations, by invocation number
  nJobs,        \* invocations so far
  fs,           \* files in the engine's virtual filesystem
  logBound,     \* a log listener dispatching to the mounted page is registered
  remounts,     \* unmount / remount cycles so far
  previewPending, \* the mounted VideoPreview has not fired loadedmetadata yet
  timeline,     \* the state of VideoTimeline and the playhead the page hands to it
  probe,        \* a call of one of the pure helpers: its argument and its result
  calls         \* initialize() calls made on the exported service, by caller

adapterVars == <<ffmpeg, loaded, initPromise, loads, nLoads>>
vars == <<state, ffmpeg, loaded, initPromise, loads, nLoads, jobs, nJobs,
          fs, logBound, remounts, previewPending, timeline, probe, calls>>

\* ------------------------------------------------------------ orchestrator
NoError == [type |-> "none", message |-> "", recoverable |-> FALSE,
            retryAction |-> "none", retryFile |-> 0, retryLoaded |-> FALSE,
            retrySettings |-> [quality |-> 80, frameRate |-> 15, width |-> 800,
                               height |-> 600, startTime |-> 0, endTime |-> 0]]

\* an ErrorState whose retryAction is the handleConvert closure of a render
\* in which uploadedFile = f, ffmpegLoaded = l and settings = st
ConversionError(msg, f, l, st) ==
  [type |-> "conversion", message |-> msg, recoverable |-> TRUE,
   retryAction |-> "handleConvert", retryFile |-> f, retryLoaded |-> l,
   retrySettings |-> st]

FFmpegError(msg) ==
  [type |-> "ffmpeg", message |-> msg, recoverable |-> TRUE,
   retryAction |-> "initializeFFmpeg", retryFile |-> 0, retryLoaded |-> FALSE,
   retrySettings |-> NoError.retrySettings]

\* VideoMetadata as VideoPreview reports it for a file: a file is known by its
\* number and so is its metadata; aspectRatio is width / height.  Times
\* (duration, startTime, endTime, the playhead) are in hundredths of a second
Videos ==
  << [duration |-> 1000, width |-> 1920, height |-> 1080, frameRate |-> 30],
     [duration |-> 400,  width |-> 640,  height |-> 480,  frameRate |-> 24] >>

MetadataOf(f) == Videos[((f - 1) % Len(Videos)) + 1]

\* Math.round(a / b) for positive integers: halves round up
Round(a, b) == (2 * a + b) \div (2 * b)

\* Math.round(width / aspectRatio), with aspectRatio = md.width / md.height
calculateHeightFromWidth(width, md) == Round(width * md.height, md.width)

\* Math.round(height * aspectRatio)
calculateWidthFromHeight(height, md) == Round(height * md.width, md.height)

\* getDefaultSettings(videoMetadata) of utils/browser-compatibility
getDefaultSettings(md) ==
  LET defaultWidth == IF md.width < 800 THEN md.width ELSE 800
  IN [quality |-> 80, frameRate |-> 15, width |-> defaultWidth,
      height |-> calculateHeightFromWidth(defaultWidth, md)]

initialSettings ==
  [quality |-> 80, frameRate |-> 15, width |-> 800, height |-> 600,
   startTime |-> 0, endTime |-> 0]

\* videoMetadata: 0 = null, else the file whose metadata it holds
initialState ==
  [uploadedFile |-> 0, videoMetadata |-> 0, settings |-> initialSettings,
   conversionStatus |-> "idle",
   progress |-> 0, gifBlob |-> 0, error |-> NoError, ffmpegLoaded |-> FALSE]

\* a SET_FILE case that keeps the previous result
reduceSetFile_KeepsBlob(s, file) ==
  [s EXCEPT !.uploadedFile = file, !.videoMetadata = 0, !.progress = 0,
            !.conversionStatus = "idle", !.error = NoError]

\* case "SET_FILE"
reduceSetFile(s, file) ==
  [s EXCEPT !.uploadedFile = file, !.videoMetadata = 0,
            !.gifBlob = 0, !.progress = 0,
            !.conversionStatus = "idle", !.error = NoError]

\* case "SET_METADATA": width, height and the trim range are derived from the
\* metadata, the other settings are spread from the current ones
\* case "SET_METADATA" for the payload md, the metadata of file f
reduceSetMetadataOf(s, f, md) ==
  LET defaultWidth == IF md.width < 800 THEN md.width ELSE 800
  IN [s EXCEPT !.videoMetadata = f,
               !.settings = [s.settings EXCEPT
                               !.width = defaultWidth,
                               !.height = calculateHeightFromWidth(defaultWidth, md),
                               !.startTime = 0,
                               !.endTime = md.duration]]

reduceSetMetadata(s, f) == reduceSetMetadataOf(s, f, MetadataOf(f))

\* case "UPDATE_SETTINGS": { ...state.settings, ...action.payload }; the
\* payload is a function from the fields it carries to their values
reduceUpdateSettings(s, payload) ==
  [s EXCEPT !.settings = [k \in DOMAIN s.settings |->
                            IF k \in DOMAIN payload THEN payload[k]
                            ELSE s.settings[k]]]

\* a SET_GIF_BLOB case that stores the blob without completing the conversion
reduceSetGifBlob_StatusKept(s, blob) ==
  [s EXCEPT !.gifBlob = blob, !.progress = 100]

\* case "SET_GIF_BLOB"
reduceSetGifBlob(s, blob) ==
  [s EXCEPT !.gifBlob = blob, !.conversionStatus = "complete", !.progress = 100]

\* a RESET case that forgets that the engine is loaded
reduceReset_DropsLoaded(s) == initialState

\* case "RESET"
reduceReset(s) == [initialState EXCEPT !.ffmpegLoaded = s.ffmpegLoaded]

converterReducer(s, action) ==
  CASE action.type = "SET_FILE" -> reduceSetFile(s, action.payload)
    [] action.type = "SET_METADATA" -> reduceSetMetadata(s, action.payload)
    [] action.type = "UPDATE_SETTINGS" -> reduceUpdateSettings(s, action.payload)
    [] action.type = "SET_STATUS" ->
         [s EXCEPT !.conversionStatus = action.payload]
    [] action.type = "SET_PROGRESS" ->
         [s EXCEPT !.progress = action.payload]
    [] action.type = "SET_GIF_BLOB" -> reduceSetGifBlob(s, action.payload)
    [] action.type = "SET_ERROR" ->
         [s EXCEPT !.error = action.payload, !.conversionStatus = "error"]
    [] action.type = "CLEAR_ERROR" ->
         [s EXCEPT !.error = NoError]
    [] action.type = "SET_FFMPEG_LOADED" ->
         [s EXCEPT !.ffmpegLoaded = action.payload]
    [] action.type = "RESET" -> reduceReset(s)
    [] OTHER -> s

Act(t, p) == [type |-> t, payload |-> p]

\* a sequence of dispatches, applied in order
RECURSIVE dispatchAll(_, _)
dispatchAll(s, acts) ==
  IF acts = <<>> THEN s
  ELSE dispatchAll(converterReducer(s, Head(acts)), Tail(acts))


\* ---------------------------------------------------------------- adapter
isLoaded == loaded /\ ffmpeg # 0

\* engine: the ffmpeg.load() call of the attempt ("none" before it is made)
NoLoad == [phase |-> "unused", timer |-> "none", left |-> 0, engine |-> "none"]

\* the phases in which the async body of initialize() has not yet settled
PendingPhases == {"fetchCore", "fetchWasm", "load"}

\* catch branch of initialize(): the message of the Error it throws
initializeError(m) ==
  IF includes(m, "timeout") \/ includes(m, "timed out") THEN MSG_INIT_SLOW
  ELSE IF includes(m, "network") \/ includes(m, "fetch") THEN MSG_INIT_NET
  ELSE IF includes(m, "WASM") \/ includes(m, "WebAssembly") THEN MSG_INIT_WASM
  ELSE MSG_INIT_OTHER

\* initialize() starts a load only if neither guard returns early
initializeStartsLoad == ~loaded /\ ~(initPromise # 0)

\* initialize(): 0 when the call returns without a promise to wait for
\* (already loaded), else the attempt whose promise the caller receives
initializeResult ==
  IF loaded THEN 0
  ELSE IF initializeStartsLoad THEN nLoads + 1
  ELSE initPromise

\* the adapter after a call of initialize(): a new attempt runs up to its
\* first await (new FFmpeg(), setTimeout(LOAD_TIMEOUT), toBlobURL(core))
initialize ==
  IF initializeStartsLoad
  THEN /\ nLoads < MaxLoads
       /\ ffmpeg' = nLoads + 1
       /\ initPromise' = nLoads + 1
       /\ nLoads' = nLoads + 1
       /\ loads' = [loads EXCEPT ![nLoads + 1] =
                      [phase |-> "fetchCore", timer |-> "armed",
                       left |-> LOAD_TIMEOUT, engine |-> "none"]]
       /\ UNCHANGED loaded
  ELSE UNCHANGED adapterVars

\* terminate()
terminate ==
  IF ffmpeg # 0
  THEN /\ ffmpeg' = 0
       /\ loaded' = FALSE
       /\ UNCHANGED <<initPromise, loads, nLoads>>
  ELSE UNCHANGED adapterVars

\* ------------------------------------------------- handleConvert, by parts
\* The last four fields are the log listener of the job's convertToGif call and
\* the log of its exec: videoDuration (0 until a Duration line is heard), since
\* = min(now - lastProgressUpdate, PROGRESS_THROTTLE), last = the value last
\* passed to onProgress (0 after SET_PROGRESS 0), log = what the job's exec has
\* logged so far (0: nothing, 1: the Duration line) and pos = the position of
\* its last time= line
NoJob == [pc |-> "free", file |-> 0, snapLoaded |-> FALSE,
          settings |-> initialSettings, awaits |-> 0,
          timer |-> "none", left |-> 0, procLeft |-> 0,
          ec |-> "none", mounted |-> FALSE, outcome |-> "none",
          videoDuration |-> 0, since |-> PROGRESS_THROTTLE, last |-> 0,
          log |-> 0, pos |-> 0]

\* an invocation that has returned and whose engine call, if any, has settled
DoneJob == [NoJob EXCEPT !.pc = "done"]

\* stages of a convertToGif call that has been made and has not settled
InFlight == {"fetchFile", "writeFile", "exec", "readFile",
             "deleteInput", "deleteOutput"}

\* the stages in which input.mp4 has been written by this call
Staged == {"exec", "readFile", "deleteInput", "deleteOutput"}

retire(jb) == IF jb.pc = "done" /\ jb.ec \notin InFlight THEN DoneJob ELSE jb

Active == {j \in JobIds : jobs[j].pc \in {"init", "race"} \/ jobs[j].ec \in InFlight}

\* dispatch reaches the reducer only while the page that made the call is mounted
dispatchFrom(jb, s, acts) == IF jb.mounted THEN dispatchAll(s, acts) ELSE s

\* catch branch of handleConvert: the user-facing message
conversionError(m) ==
  IF includes(m, "timed out") THEN m
  ELSE IF includes(m, "memory") \/ includes(m, "out of memory") THEN MSG_UI_MEMORY
  ELSE IF includes(m, "format") \/ includes(m, "codec") THEN MSG_UI_CODEC
  ELSE IF includes(m, "corrupted") \/ includes(m, "invalid") THEN MSG_UI_CORRUPT
  ELSE IF includes(m, "abort") THEN MSG_UI_CANCEL
  ELSE m

\* catch branch of initializeFFmpeg: the user-facing message
initializeFFmpegError(m) ==
  IF includes(m, "network") \/ includes(m, "fetch") THEN MSG_UI_NET
  ELSE IF includes(m, "timeout") THEN MSG_UI_TIMEOUT
  ELSE m

\* a catch branch whose error cannot be retried
handleConvertCatch_NoRetry(s, jb, m) ==
  [s  |-> dispatchFrom(jb, s,
            <<Act("SET_ERROR",
                  [ConversionError(conversionError(m), 0, FALSE, initialSettings)
                     EXCEPT !.recoverable = FALSE, !.retryAction = "none"])>>),
   jb |-> retire([jb EXCEPT !.pc = "done", !.awaits = 0,
                            !.timer = IF jb.timer = "armed" THEN "cleared" ELSE jb.timer,
                            !.left = 0,
                            !.outcome = IF m = MSG_CONV_TIMEOUT THEN "timeout" ELSE "error"])]

\* catch branch of handleConvert: clearTimeout, SET_ERROR with retryAction = handleConvert
handleConvertCatch(s, jb, m) ==
  [s  |-> dispatchFrom(jb, s,
            <<Act("SET_ERROR",
                  ConversionError(conversionError(m), jb.file, jb.snapLoaded,
                                  jb.settings))>>),
   jb |-> retire([jb EXCEPT !.pc = "done", !.awaits = 0,
                            !.timer = IF jb.timer = "armed" THEN "cleared" ELSE jb.timer,
                            !.left = 0,
                            !.outcome = IF m = MSG_CONV_TIMEOUT THEN "timeout" ELSE "error"])]

\* handleConvert calling a convertToGif that has no readiness guard
handleConvertProcess_NoGuard(s, jb, ready) ==
  [s  |-> dispatchFrom(jb, s, <<Act("SET_STATUS", "processing"),
                                Act("SET_PROGRESS", 0),
                                Act("CLEAR_ERROR", 0)>>),
   jb |-> [jb EXCEPT !.procLeft = jb.left, !.awaits = 0,
                     !.pc = "race", !.ec = "fetchFile"]]

\* handleConvert from SET_STATUS processing up to the await of Promise.race;
\* ready is isLoaded() at the moment convertToGif is called
handleConvertProcess(s, jb, ready) ==
  LET s1  == dispatchFrom(jb, s, <<Act("SET_STATUS", "processing"),
                                   Act("SET_PROGRESS", 0),
                                   Act("CLEAR_ERROR", 0)>>)
      jb1 == [jb EXCEPT !.procLeft = jb.left, !.awaits = 0]
  IN IF ready
     THEN [s |-> s1, jb |-> [jb1 EXCEPT !.pc = "race", !.ec = "fetchFile"]]
     ELSE handleConvertCatch(s1, [jb1 EXCEPT !.ec = "rejected"], MSG_NOT_INIT)

\* initializeFFmpeg and handleConvert after `await ffmpegService.initialize()`
\* has settled: ok, or rejected with message m
handleConvertAfterInit(s, jb, ok, m, ready) ==
  IF ok
  THEN handleConvertProcess(
         dispatchFrom(jb, s, <<Act("SET_FFMPEG_LOADED", TRUE),
                               Act("SET_STATUS", "idle")>>), jb, ready)
  ELSE handleConvertCatch(
         dispatchFrom(jb, s, <<Act("SET_ERROR", FFmpegError(initializeFFmpegError(m)))>>),
         jb, m)

\* every handleConvert waiting for load attempt a resumes in the same task,
\* in the order in which the invocations were made
RECURSIVE resumeWaiting(_, _, _, _, _, _, _)
resumeWaiting(s, js, from, a, ok, m, ready) ==
  IF from > MaxConverts THEN [s |-> s, jobs |-> js]
  ELSE IF js[from].pc = "init" /\ js[from].awaits = a
       THEN LET r == handleConvertAfterInit(s, js[from], ok, m, ready)
            IN resumeWaiting(r.s, [js EXCEPT ![from] = r.jb], from + 1, a, ok, m, ready)
       ELSE resumeWaiting(s, js, from + 1, a, ok, m, ready)

\* handleConvert invoked from a render whose closure holds uploadedFile = f,
\* videoMetadata (m: it is not null), ffmpegLoaded = l and settings = st, with
\* s the reducer state at the call
handleConvert(s, f, m, l, st) ==
  /\ f # 0 /\ m                        \* otherwise the early return: nothing happens
  /\ nJobs < MaxConverts
  /\ Cardinality(Active) < MaxActive
  /\ nJobs' = nJobs + 1
  /\ LET jb0 == [NoJob EXCEPT !.pc = "start", !.file = f, !.snapLoaded = l,
                              !.settings = st,
                              !.timer = "armed", !.left = CONVERSION_TIMEOUT,
                              !.mounted = TRUE]
         put(r) == /\ state' = r.s
                   /\ jobs' = [jobs EXCEPT ![nJobs + 1] = r.jb]
     IN IF l
        THEN \* state.ffmpegLoaded: no initializeFFmpeg
             /\ put(handleConvertProcess(s, jb0, isLoaded))
             /\ UNCHANGED adapterVars
        ELSE IF isLoaded
        THEN \* initializeFFmpeg: ffmpegService.isLoaded()
             /\ put(handleConvertProcess(
                      converterReducer(s, Act("SET_FFMPEG_LOADED", TRUE)), jb0, TRUE))
             /\ UNCHANGED adapterVars
        ELSE \* initializeFFmpeg: SET_STATUS loading, await ffmpegService.initialize()
             LET s1 == converterReducer(s, Act("SET_STATUS", "loading"))
                 a  == initializeResult
             IN /\ initialize
                /\ IF a = 0 \/ (a <= nLoads /\ loads[a].phase = "resolved")
                   THEN \* the promise returned is already resolved
                        put(handleConvertAfterInit(s1, jb0, TRUE, "", isLoaded))
                   ELSE put([s |-> s1,
                             jb |-> [jb0 EXCEPT !.pc = "init", !.awaits = a]])

\* ------------------------------------------- time texts (VideoTimeline)
\* A text is kept as String.split leaves it: the sequence of its fields (split
\* at ":"), each field the sequence of its parts (split at "."), each part a
\* sequence of characters other than ":" and ".".
Digits == <<"0", "1", "2", "3", "4", "5", "6", "7", "8", "9">>

IsDigit(c) == \E i \in 1..Len(Digits) : Digits[i] = c

DigitValue(c) == (CHOOSE i \in 1..Len(Digits) : Digits[i] = c) - 1

\* a JavaScript number: NaN or a value
NaN == [kind |-> "NaN", v |-> 0]

Num(n) == [kind |-> "number", v |-> n]

\* the value of the digits of str from position i on, up to the first
\* character that is not a digit; none when there is no digit at i
RECURSIVE leadingDigits(_, _, _)
leadingDigits(str, i, acc) ==
  IF i <= Len(str) /\ IsDigit(str[i])
  THEN leadingDigits(str, i + 1, [none |-> FALSE, v |-> 10 * acc.v + DigitValue(str[i])])
  ELSE acc

\* Number.parseInt(str, 10): an optional sign, then the leading digits; NaN
\* when no digit follows
parseInt(str) ==
  LET signed == str # <<>> /\ str[1] \in {"-", "+"}
      digits == leadingDigits(str, IF signed THEN 2 ELSE 1, [none |-> TRUE, v |-> 0])
  IN IF digits.none THEN NaN
     ELSE Num(IF signed /\ str[1] = "-" THEN 0 - digits.v ELSE digits.v)

\* n.toString() for n >= 0
RECURSIVE toString(_)
toString(n) ==
  IF n < 10 THEN <<Digits[n + 1]>>
  ELSE toString(n \div 10) \o <<Digits[(n % 10) + 1]>>

\* str.padStart(2, "0")
padStart2(str) == IF Len(str) < 2 THEN <<"0">> \o str ELSE str

\* formatTime(seconds), seconds >= 0 given in hundredths.  mins and secs are
\* exact; (seconds % 1) * 100 is a floating-point product that can fall just
\* below the hundredths it stands for, and Math.floor then yields one less:
\* low tells whether it does
formatTime(seconds, low) ==
  LET mins  == seconds \div 6000
      secs  == (seconds % 6000) \div 100
      exact == seconds % 100
      ms    == IF low /\ exact > 0 THEN exact - 1 ELSE exact
  IN << <<toString(mins)>>, <<padStart2(toString(secs)), padStart2(toString(ms))>> >>

\* ---- double arithmetic of formatTime and parseTime ----
\* A double near k hundredths of a second is [k, e, s]: its value is
\* k / 100 + s * 2^(e - 52) / 100, where e is its binary exponent, 2^(e - 52)
\* the spacing of the doubles around it and s / 100 its distance from k / 100
\* in spacings.

RECURSIVE pow2(_)
pow2(n) == IF n = 0 THEN 1 ELSE 2 * pow2(n - 1)

\* 2^n modulo m
RECURSIVE pow2mod(_, _)
pow2mod(n, m) == IF n = 0 THEN 1 % m ELSE (2 * pow2mod(n - 1, m)) % m

\* the binary exponent of k / 100, for 1 <= k: 2^e <= k / 100 < 2^(e + 1)
binade(k) ==
  CHOOSE e \in (0 - 7)..12 :
    100 * pow2(e + 7) <= k * 128 /\ k * 128 < 100 * pow2(e + 8)

\* (k * 2^(52 - e)) modulo 200: its last two decimal digits are what rounding
\* k / 100 to the spacing 2^(e - 52) cuts off (never exactly a half), its
\* hundreds digit tells whether the double below is odd
cutOff(k, e) == ((k % 200) * pow2mod(52 - e, 200)) % 200

\* the literal or quotient k / 100: the double nearest to it
Double(k) ==
  IF k = 0 THEN [k |-> 0, e |-> 0, s |-> 0]
  ELSE LET e == binade(k)
           q == cutOff(k, e) % 100
       IN [k |-> k, e |-> e, s |-> IF q < 50 THEN 0 - q ELSE 100 - q]

\* the binary exponent of the integer c, 1 <= c < 128
ilog2(c) == CHOOSE n \in 0..6 : pow2(n) <= c /\ c < pow2(n + 1)

\* Math.floor((seconds % 1) * 100) is one less than the hundredths c of x:
\* seconds % 1 is exact, and its product with 100 is rounded to a double
\* below c when x lies more than half a spacing of the doubles under c
\* below k / 100
floorsLow(x) ==
  LET c == x.k % 100
  IN /\ c # 0
     /\ x.s < 0
     /\ LET ec == IF c = pow2(ilog2(c)) THEN ilog2(c) - 1 ELSE ilog2(c)
        IN (0 - x.s) * pow2(x.e + 8) > pow2(ec + 7)

\* mins * 60 + secs + ms of parseTime: the integer S plus the double y below
\* 1, rounded to the nearest double (to the even one at a tie)
plus(S, y) ==
  IF S = 0 THEN y
  ELSE IF y.k = 0 THEN [k |-> 100 * S, e |-> binade(100 * S), s |-> 0]
  ELSE LET k == 100 * S + y.k
           e == binade(k)
           q == cutOff(k, e) % 100
           odd == cutOff(k, e) \div 100
           T == q * pow2(e - y.e) + y.s
           half == 50 * pow2(e - y.e)
           down == T < half \/ (T = half /\ odd = 0)
       IN [k |-> k, e |-> e, s |-> IF down THEN 0 - q ELSE 100 - q]

\* x - y > 0.01 for doubles x and y one hundredth apart: the difference is
\* exact, and 0.01 is the double nearest to 1 / 100
exceedsHundredth(x, y) ==
  /\ x.k - y.k = 1
  /\ x.s * pow2(x.e + 7) - y.s * pow2(y.e + 7) > Double(1).s

\* the outcomes of the floor in formatTime for a time of the page kept as
\* seconds hundredths: such a time is a playhead position, a sum or a
\* difference near the hundredth, so the floor can fall either way; a whole
\* number of seconds is exact
Lows(seconds) == IF seconds % 100 = 0 THEN {FALSE} ELSE BOOLEAN

\* the seconds and hundredths of "SS" or "SS.MS": parseInt of the first part,
\* and of the second part if there is one and it is not empty, over 100
secondsOf(secsParts) ==
  LET secs == parseInt(secsParts[1])
      ms   == IF Len(secsParts) >= 2 /\ secsParts[2] # <<>>
              THEN parseInt(secsParts[2]) ELSE Num(0)
  IN [secs |-> secs, ms |-> ms]

\* parseTime(timeStr): null, or the number mins * 60 + secs + ms (in
\* hundredths), which is NaN when ms is
Null == [kind |-> "null", v |-> 0]

parseTime(timeStr) ==
  IF Len(timeStr) = 2
  THEN LET mins == parseInt(timeStr[1][1])
           p    == secondsOf(timeStr[2])
       IN IF mins = NaN \/ p.secs = NaN THEN Null
          ELSE IF p.ms = NaN THEN NaN
          ELSE Num(mins.v * 6000 + p.secs.v * 100 + p.ms.v)
  ELSE IF Len(timeStr) = 1
  THEN LET p == secondsOf(timeStr[1])
       IN IF p.secs = NaN THEN Null
          ELSE IF p.ms = NaN THEN NaN
          ELSE Num(p.secs.v * 100 + p.ms.v)
  ELSE Null

\* ---- the engine command (FFmpegServiceImpl.buildFFmpegCommand) ----

\* Math.floor(16 + (quality / 100) * 240); for the integers 0..100 the
\* floating-point value has the floor of the exact one
maxColors(quality) == 16 + (quality * 240) \div 100

\* parts.join(","): the pieces of the parts with "," between two parts
RECURSIVE join(_)
join(parts) ==
  IF Len(parts) = 1 THEN parts[1]
  ELSE parts[1] \o <<",">> \o join(Tail(parts))

\* x.toFixed(3) of a time x given in hundredths of a second
toFixed3(x) ==
  LET abs == IF x < 0 THEN 0 - x ELSE x
      text == toString(abs \div 100) \o <<".">> \o padStart2(toString(abs % 100)) \o <<"0">>
  IN IF x < 0 THEN <<"-">> \o text ELSE text

\* filterComplex of buildFFmpegCommand: the five filters joined by ","
filterComplex(settings) ==
  join(<< <<"fps=">> \o toString(settings.frameRate),
          <<"scale=">> \o toString(settings.width) \o <<":">>
             \o toString(settings.height) \o <<":flags=lanczos">>,
          <<"split[s0][s1]">>,
          <<"[s0]palettegen=max_colors=">> \o toString(maxColors(settings.quality))
             \o <<"[p]">>,
          <<"[s1][p]paletteuse=dither=bayer:bayer_scale=5">> >>)

\* buildFFmpegCommand with the seek placed after the input
buildFFmpegCommand_SeekAfterInput(inputFile, outputFile, settings) ==
  << <<"-i">>, <<inputFile>>,
     <<"-ss">>, toFixed3(settings.startTime),
     <<"-t">>, toFixed3(settings.endTime - settings.startTime),
     <<"-vf">>, filterComplex(settings),
     <<"-loop">>, <<"0">>,
     <<outputFile>> >>

\* buildFFmpegCommand(inputFile, outputFile, settings): the arguments, each a
\* sequence of the pieces of its text
buildFFmpegCommand(inputFile, outputFile, settings) ==
  LET trimDuration == settings.endTime - settings.startTime
  IN << <<"-ss">>, toFixed3(settings.startTime),
        <<"-i">>, <<inputFile>>,
        <<"-t">>, toFixed3(trimDuration),
        <<"-vf">>, filterComplex(settings),
        <<"-loop">>, <<"0">>,
        <<outputFile>> >>

\* ---- settings validation (utils/browser-compatibility) ----

MSG_QUALITY    == "Quality must be between 1 and 100"
MSG_FRAME_RATE == "Frame rate must be 10, 15, 20, 24, or 30 fps"
MSG_WIDTH      == "Width must be between 100 and 1920 pixels"
MSG_HEIGHT     == "Height must be between 100 and 1920 pixels"

\* the frame rates validateSettings accepts
FRAME_RATES == {10, 15, 20, 24, 30}

\* a < b and a > b of two JavaScript numbers: false when either is NaN
lessThan(a, b) == a.kind = "number" /\ b.kind = "number" /\ a.v < b.v
greaterThan(a, b) == lessThan(b, a)

Valid == [isValid |-> TRUE, error |-> ""]
Invalid(error) == [isValid |-> FALSE, error |-> error]

\* validateSettings(settings); the fields of settings are JavaScript numbers
validateSettings(settings) ==
  IF lessThan(settings.quality, Num(1)) \/ greaterThan(settings.quality, Num(100))
  THEN Invalid(MSG_QUALITY)
  ELSE IF ~(settings.frameRate.kind = "number" /\ settings.frameRate.v \in FRAME_RATES)
  THEN Invalid(MSG_FRAME_RATE)
  ELSE IF lessThan(settings.width, Num(100)) \/ greaterThan(settings.width, Num(1920))
  THEN Invalid(MSG_WIDTH)
  ELSE IF lessThan(settings.height, Num(100)) \/ greaterThan(settings.height, Num(1920))
  THEN Invalid(MSG_HEIGHT)
  ELSE Valid

\* ------------------------------------------------------------ user events
frame == <<fs, logBound, remounts, calls>>

\* which part of the page is rendered for reducer state s
View(s) ==
  IF s.uploadedFile = 0 THEN "upload"
  ELSE IF s.videoMetadata = 0 THEN "loading"
  ELSE IF s.gifBlob = 0 THEN "editor"
  ELSE "result"

\* previewPending after the render that follows a step: a VideoPreview that is
\* newly mounted, or whose file changed, has its loadedmetadata event ahead;
\* p is the flag of a preview that stays mounted
rendered(p) ==
  IF View(state') \notin {"loading", "editor"} THEN FALSE
  ELSE IF View(state') # View(state) \/ state'.uploadedFile # state.uploadedFile
       THEN TRUE
  ELSE p

\* VideoTimeline before it is mounted; currentTime is currentVideoTime of the
\* page, focus the text field that has the keyboard focus
NoTimeline ==
  [mounted |-> FALSE, localStartTime |-> 0, localEndTime |-> 0,
   startTimeInput |-> formatTime(0, FALSE), endTimeInput |-> formatTime(0, FALSE),
   currentTime |-> 0, focus |-> "none"]

\* VideoTimeline after the render that follows a step in which its handlers
\* left it as t: it exists in the editor only; when it is mounted (useState)
\* and when its startTime or endTime prop has changed (useEffect) the local
\* times and both input texts are taken from the props
renderTimeline(t) ==
  IF View(state') # "editor"
  THEN IF t.mounted
       THEN timeline' = [NoTimeline EXCEPT !.currentTime = t.currentTime]
       ELSE timeline' = t
  ELSE IF \/ ~t.mounted
          \/ state'.settings.startTime # state.settings.startTime
          \/ state'.settings.endTime # state.settings.endTime
       THEN \E ls \in Lows(state'.settings.startTime), le \in Lows(state'.settings.endTime) :
              timeline' = [mounted |-> TRUE,
                           localStartTime |-> state'.settings.startTime,
                           localEndTime |-> state'.settings.endTime,
                           startTimeInput |-> formatTime(state'.settings.startTime, ls),
                           endTimeInput |-> formatTime(state'.settings.endTime, le),
                           currentTime |-> t.currentTime,
                           focus |-> t.focus]
  ELSE timeline' = t

render ==
  /\ previewPending' = rendered(previewPending)
  /\ renderTimeline(timeline)
  /\ UNCHANGED probe

\* FileUploadZone: rendered while no file is selected, disabled while loading
HandleFileSelect(f) ==
  /\ state.uploadedFile = 0
  /\ state.conversionStatus # "loading"
  /\ state' = dispatchAll(state, <<Act("SET_FILE", f), Act("CLEAR_ERROR", 0)>>)
  /\ UNCHANGED <<adapterVars, jobs, nJobs, frame>>
  /\ render

\* the <video> of the mounted VideoPreview fires loadedmetadata: the preview
\* reports the metadata of its file.  The page renders one VideoPreview while
\* the metadata is missing and another one in the editor, so the editor's
\* preview reports the metadata once more
HandleMetadataLoad ==
  /\ previewPending
  /\ state' = converterReducer(state, Act("SET_METADATA", state.uploadedFile))
  /\ previewPending' = rendered(FALSE)
  /\ renderTimeline(timeline)
  /\ UNCHANGED <<adapterVars, jobs, nJobs, frame, probe>>

\* ConversionControls and VideoTimeline are rendered in the editor and are
\* disabled while the status is processing or loading
controlsEnabled ==
  /\ View(state) = "editor"
  /\ state.conversionStatus \notin {"processing", "loading"}

\* ConversionControls without its height-sync effect
heightSync_Off(s) == s

\* the height-sync effect of ConversionControls, run after a render in which
\* round(settings.width / aspectRatio) differs from settings.height
heightSync(s) ==
  LET calculatedHeight ==
        calculateHeightFromWidth(s.settings.width, MetadataOf(s.videoMetadata))
  IN IF View(s) = "editor" /\ calculatedHeight # s.settings.height
     THEN converterReducer(s, Act("UPDATE_SETTINGS",
                                  [s.settings EXCEPT !.height = calculatedHeight]))
     ELSE s

\* the values the user picks on the quality slider, the frame rate selector
\* and the width slider
ControlEdits == {<<"quality", 50>>, <<"frameRate", 30>>, <<"width", 480>>}

\* trim ranges the user marks on the timeline: <<startTime, endTime>>
TimeRanges == {<<0, 300>>}

\* handleQualityChange / handleFrameRateChange / handleWidthChange of
\* ConversionControls: onSettingsChange({...settings, field: value}), then the
\* height-sync effect
HandleSettingsChange(e) ==
  /\ controlsEnabled
  /\ state.settings[e[1]] # e[2]
  /\ state' = heightSync(converterReducer(state,
                 Act("UPDATE_SETTINGS", [state.settings EXCEPT ![e[1]] = e[2]])))
  /\ UNCHANGED <<adapterVars, jobs, nJobs, frame>>
  /\ render

\* VideoTimeline: onTimeRangeChange(startTime, endTime)
HandleTimeRangeChange(r) ==
  /\ controlsEnabled
  /\ <<state.settings.startTime, state.settings.endTime>> # r
  /\ r[2] <= MetadataOf(state.videoMetadata).duration
  /\ state' = converterReducer(state,
                 Act("UPDATE_SETTINGS", [startTime |-> r[1], endTime |-> r[2]]))
  /\ UNCHANGED <<adapterVars, jobs, nJobs, frame>>
  /\ render

\* ---- the trim controls (VideoTimeline) ----

\* disabled={isConverting || isLoading} of the page
disabled == state.conversionStatus \in {"processing", "loading"}

min(a, b) == IF a <= b THEN a ELSE b
max(a, b) == IF a >= b THEN a ELSE b

\* handleTimeRangeChange of the page: the reducer merges the two fields
handleTimeRangeChange(s, startTime, endTime) ==
  converterReducer(s, Act("UPDATE_SETTINGS",
                          [startTime |-> startTime, endTime |-> endTime]))

\* a handler of VideoTimeline has left the component as t and the page as s;
\* the render that follows runs the prop-sync effect
timelineStep(t, s) ==
  /\ state' = s
  /\ previewPending' = rendered(previewPending)
  /\ renderTimeline(t)
  /\ UNCHANGED <<adapterVars, jobs, nJobs, frame, probe>>

\* the positions (hundredths of a second) the playhead is reported at
Playheads == {0, 5, 113, 995, 1000}

\* a part of a text, from its characters
Chars1(a) == <<a>>
Chars2(a, b) == <<a, b>>

\* the texts typed into the start and end fields:
\* "0:05.00", "0:12.00", "0:09.95", "3x", "0.5", "-1", "abc", "5.x", "1:2:3", ""
TimeTexts ==
  { << <<Chars1("0")>>, <<Chars2("0", "5"), Chars2("0", "0")>> >>,
    << <<Chars1("0")>>, <<Chars2("1", "2"), Chars2("0", "0")>> >>,
    << <<Chars1("0")>>, <<Chars2("0", "9"), Chars2("9", "5")>> >>,
    << <<Chars2("3", "x")>> >>,
    << <<Chars1("0"), Chars1("5")>> >>,
    << <<Chars2("-", "1")>> >>,
    << <<<<"a", "b", "c">>>> >>,
    << <<Chars1("5"), Chars1("x")>> >>,
    << <<Chars1("1")>>, <<Chars1("2")>>, <<Chars1("3")>> >>,
    << <<<<>>>> >> }

\* VideoPreview: onTimeUpdate(time), setCurrentVideoTime of the page
HandleVideoTimeUpdate(time) ==
  /\ timeline.mounted
  /\ time <= MetadataOf(state.videoMetadata).duration
  /\ time # timeline.currentTime
  /\ timelineStep([timeline EXCEPT !.currentTime = time], state)

\* Mark IN without the 0.1 s kept below the end of the range
HandleMarkIn_NoGap ==
  /\ timeline.mounted /\ ~disabled /\ timeline.focus = "none"
  /\ LET newStartTime == max(0, timeline.currentTime)
     IN \E low \in Lows(newStartTime) :
          timelineStep([timeline EXCEPT !.localStartTime = newStartTime,
                                        !.startTimeInput = formatTime(newStartTime, low)],
                       handleTimeRangeChange(state, newStartTime, timeline.localEndTime))

\* the Mark IN button and the "i" key, which is ignored inside a text field;
\* a click on a button takes the focus from a text field first
HandleMarkIn ==
  /\ timeline.mounted /\ ~disabled /\ timeline.focus = "none"
  /\ LET newStartTime ==
           max(0, min(timeline.currentTime, timeline.localEndTime - 10))
     IN \E low \in Lows(newStartTime) :
          timelineStep([timeline EXCEPT !.localStartTime = newStartTime,
                                        !.startTimeInput = formatTime(newStartTime, low)],
                       handleTimeRangeChange(state, newStartTime, timeline.localEndTime))

\* the Mark OUT button and the "o" key
HandleMarkOut ==
  /\ timeline.mounted /\ ~disabled /\ timeline.focus = "none"
  /\ LET duration == MetadataOf(state.videoMetadata).duration
         newEndTime ==
           min(duration, max(timeline.currentTime, timeline.localStartTime + 10))
     IN \E low \in Lows(newEndTime) :
          timelineStep([timeline EXCEPT !.localEndTime = newEndTime,
                                        !.endTimeInput = formatTime(newEndTime, low)],
                       handleTimeRangeChange(state, timeline.localStartTime, newEndTime))

\* typing into the start field, which has or takes the focus; the other
\* field has lost it before
HandleStartTimeInputChange(value) ==
  /\ timeline.mounted /\ ~disabled /\ timeline.focus # "end"
  /\ timelineStep([timeline EXCEPT !.startTimeInput = value, !.focus = "start"],
                  state)

\* typing into the end field
HandleEndTimeInputChange(value) ==
  /\ timeline.mounted /\ ~disabled /\ timeline.focus # "start"
  /\ timelineStep([timeline EXCEPT !.endTimeInput = value, !.focus = "end"],
                  state)

\* the start field loses focus
HandleStartTimeInputBlur ==
  /\ timeline.mounted /\ timeline.focus = "start"
  /\ LET parsed == parseTime(timeline.startTimeInput)
         duration == MetadataOf(state.videoMetadata).duration
     IN IF parsed.kind = "number" /\ parsed.v >= 0 /\ parsed.v < timeline.localEndTime
        THEN LET clampedStart == min(parsed.v, duration)
             IN \E low \in Lows(clampedStart) :
                  timelineStep([timeline EXCEPT !.localStartTime = clampedStart,
                                                !.startTimeInput = formatTime(clampedStart, low),
                                                !.focus = "none"],
                               handleTimeRangeChange(state, clampedStart, timeline.localEndTime))
        ELSE \E low \in Lows(timeline.localStartTime) :
               timelineStep([timeline EXCEPT !.startTimeInput =
                                                formatTime(timeline.localStartTime, low),
                                             !.focus = "none"],
                            state)

\* the end field loses focus
HandleEndTimeInputBlur ==
  /\ timeline.mounted /\ timeline.focus = "end"
  /\ LET parsed == parseTime(timeline.endTimeInput)
         duration == MetadataOf(state.videoMetadata).duration
     IN IF parsed.kind = "number" /\ parsed.v > timeline.localStartTime /\ parsed.v <= duration
        THEN \E low \in Lows(parsed.v) :
               timelineStep([timeline EXCEPT !.localEndTime = parsed.v,
                                             !.endTimeInput = formatTime(parsed.v, low),
                                             !.focus = "none"],
                            handleTimeRangeChange(state, timeline.localStartTime, parsed.v))
        ELSE \E low \in Lows(timeline.localEndTime) :
               timelineStep([timeline EXCEPT !.endTimeInput =
                                                formatTime(timeline.localEndTime, low),
                                             !.focus = "none"],
                            state)

\* the "Reset to Full Duration" button
ResetToFullDuration ==
  /\ timeline.mounted /\ ~disabled /\ timeline.focus = "none"
  /\ LET duration == MetadataOf(state.videoMetadata).duration
     IN \E low \in Lows(duration) :
          timelineStep([timeline EXCEPT !.localStartTime = 0,
                                        !.localEndTime = duration,
                                        !.startTimeInput = formatTime(0, FALSE),
                                        !.endTimeInput = formatTime(duration, low)],
                       handleTimeRangeChange(state, 0, duration))

\* the Convert button of the action bar
ConvertPress ==
  /\ state.uploadedFile # 0 /\ state.videoMetadata # 0 /\ state.gifBlob = 0
  /\ state.conversionStatus \notin {"processing", "loading"}     \* isDisabled
  /\ handleConvert(state, state.uploadedFile, state.videoMetadata # 0,
                   state.ffmpegLoaded, state.settings)
  /\ UNCHANGED frame
  /\ render

\* the Retry control of ErrorMessage, rendered while state.error is set
HandleRetry ==
  /\ state.error.type # "none"
  /\ state.error.retryAction = "handleConvert"
  /\ handleConvert(converterReducer(state, Act("CLEAR_ERROR", 0)),
                   state.error.retryFile, TRUE, state.error.retryLoaded,
                   state.error.retrySettings)
  /\ UNCHANGED frame
  /\ render

\* the Reset controls: action bar, result card, ErrorMessage
HandleReset ==
  /\ \/ state.uploadedFile # 0 /\ state.videoMetadata # 0
     \/ state.error.type # "none"
  /\ state' = converterReducer(state, Act("RESET", 0))
  /\ UNCHANGED <<adapterVars, jobs, nJobs, frame>>
  /\ render

\* onDismiss of ErrorMessage
DismissError ==
  /\ state.error.type # "none"
  /\ state' = converterReducer(state, Act("CLEAR_ERROR", 0))
  /\ UNCHANGED <<adapterVars, jobs, nJobs, frame>>
  /\ render

\* the page is unmounted (cleanup: terminate a loaded engine) and mounted again
Remount ==
  /\ remounts < MaxRemounts
  /\ remounts' = remounts + 1
  /\ IF isLoaded THEN terminate ELSE UNCHANGED adapterVars
  /\ state' = initialState
  /\ jobs' = [j \in JobIds |-> [jobs[j] EXCEPT !.mounted = FALSE]]
  /\ logBound' = FALSE
  /\ UNCHANGED <<nJobs, fs, calls>>
  /\ render

\* ------------------------------------------------ engine load (initialize)
\* a catch branch that forgets `this.initPromise = null`
settledInitPromise_Kept(ok) == initPromise

\* this.initPromise once the async body has settled: kept on success, null
\* after the catch branch
settledInitPromise(ok) == IF ok THEN initPromise ELSE 0

\* the async body of attempt a settles; every caller waiting on it resumes.
\* engine is the state of the attempt's ffmpeg.load() call at that moment:
\* the catch branch does not stop a call that is still running
settleLoad(a, ok, m, engine) ==
  /\ loads' = [loads EXCEPT ![a].phase = IF ok THEN "resolved" ELSE "rejected",
                            ![a].timer = IF @ = "armed" THEN "moot" ELSE @,
                            ![a].left = 0,
                            ![a].engine = engine]
  /\ loaded' = ok
  /\ initPromise' = settledInitPromise(ok)
  /\ UNCHANGED <<ffmpeg, nLoads>>
  /\ LET r == resumeWaiting(state, jobs, 1, a, ok, initializeError(m),
                            ok /\ ffmpeg # 0)
     IN /\ state' = r.s
        /\ jobs' = r.jobs
  /\ calls' = [c \in CallIds |->
                 IF calls[c].st = "waiting" /\ calls[c].on = a
                 THEN [calls[c] EXCEPT !.st = IF ok THEN "resolved" ELSE "rejected",
                                       !.err = IF ok THEN "" ELSE initializeError(m)]
                 ELSE calls[c]]
  /\ UNCHANGED <<nJobs, fs, logBound, remounts>>

loadContinues(a, phase) ==
  /\ loads' = [loads EXCEPT ![a].phase = phase,
                            ![a].engine = IF phase = "load" THEN "running" ELSE @]
  /\ UNCHANGED <<state, ffmpeg, loaded, initPromise, nLoads, jobs, nJobs, frame>>

\* await toBlobURL(ffmpeg-core.js) settles
FetchCoreDone(a, ok) ==
  /\ loads[a].phase = "fetchCore"
  /\ IF ok THEN loadContinues(a, "fetchWasm")
     ELSE settleLoad(a, FALSE, MSG_FETCH, "none")
  /\ render

\* await toBlobURL(ffmpeg-core.wasm) settles; then ffmpeg.load() is called and
\* raced against the timeout promise, which may have been rejected already
FetchWasmDone(a, ok) ==
  /\ loads[a].phase = "fetchWasm"
  /\ IF ~ok THEN settleLoad(a, FALSE, MSG_FETCH, "none")
     ELSE IF loads[a].timer = "fired"
          THEN settleLoad(a, FALSE, MSG_LOAD_TIMEOUT, "running")
     ELSE loadContinues(a, "load")
  /\ render

\* ffmpeg.load() settles first: m = "" for success, else the error's message
LoadDone(a, m) ==
  /\ loads[a].phase = "load"
  /\ settleLoad(a, m = "", m, "settled")
  /\ render

\* ffmpeg.load() of an attempt that the timeout has already rejected settles:
\* the race is over and nothing observes the result
AbandonedLoadDone(a) ==
  /\ loads[a].phase = "rejected"
  /\ loads[a].engine = "running"
  /\ loads' = [loads EXCEPT ![a].engine = "settled"]
  /\ UNCHANGED <<state, ffmpeg, loaded, initPromise, nLoads, jobs, nJobs, frame>>
  /\ render

\* setTimeout(LOAD_TIMEOUT) fires: timeoutPromise is rejected
LoadTimerFire(a) ==
  /\ loads[a].timer = "armed"
  /\ loads[a].left = 0
  /\ IF loads[a].phase = "load"
     THEN settleLoad(a, FALSE, MSG_LOAD_TIMEOUT, "running")
     ELSE /\ loads' = [loads EXCEPT ![a].timer = "fired"]
          /\ UNCHANGED <<state, ffmpeg, loaded, initPromise, nLoads, jobs, nJobs, frame>>
  /\ render

\* ------------------------------------------------ conversion (convertToGif)
\* convertToGif of job j rejects with message m; handleConvert catches it if
\* the race is still open
rejectConversion(j, m) ==
  LET jb == [jobs[j] EXCEPT !.ec = "rejected"]
      r  == IF jb.pc = "race" THEN handleConvertCatch(state, jb, m)
            ELSE [s |-> state, jb |-> retire(jb)]
  IN /\ state' = r.s
     /\ jobs' = [jobs EXCEPT ![j] = r.jb]

\* the next engine operation is issued on this.ffmpeg, which terminate() may
\* have set to null
nextOperation(j, stage) ==
  IF ffmpeg = 0 THEN rejectConversion(j, MSG_FAIL_NULL)
  ELSE /\ jobs' = [jobs EXCEPT ![j].ec = stage]
       /\ UNCHANGED state

\* await fetchFile(videoFile) settles
FetchFileDone(j) ==
  /\ jobs[j].ec = "fetchFile"
  /\ nextOperation(j, "writeFile")
  /\ UNCHANGED <<adapterVars, nJobs, frame>>
  /\ render

\* await writeFile(input.mp4) settles; the log listener is registered and the
\* command is executed
WriteFileDone(j, ok) ==
  /\ jobs[j].ec = "writeFile"
  /\ IF ok
     THEN /\ fs' = fs \cup {INPUT_FILE}
          /\ IF ffmpeg = 0
             THEN /\ rejectConversion(j, MSG_FAIL_NULL)
                  /\ UNCHANGED logBound
             ELSE /\ jobs' = [jobs EXCEPT ![j].ec = "exec"]
                  /\ logBound' = (logBound \/ jobs[j].mounted)
                  /\ UNCHANGED state
     ELSE /\ rejectConversion(j, MSG_FAIL_ENGINE)
          /\ UNCHANGED <<fs, logBound>>
  /\ UNCHANGED <<adapterVars, nJobs, remounts, calls>>
  /\ render

\* a log line with a time= field reaches the registered listeners
Progress(j, p) ==
  /\ jobs[j].ec = "exec"
  /\ logBound
  /\ state' = converterReducer(state, Act("SET_PROGRESS", p))
  /\ UNCHANGED <<adapterVars, jobs, nJobs, frame>>
  /\ render

\* the log listener that convertToGif registers before exec hears every log
\* line of the instance from then on; it is followed here while its call is
\* in flight
Listening(j) == jobs[j].ec \in Staged

\* positions (seconds) of the time= lines an exec logs
LogTimes == {5, 10}

\* Math.min((currentTime / videoDuration) * 100, 100)
progressOf(currentTime, videoDuration) ==
  IF 100 * currentTime > 100 * videoDuration THEN 100
  ELSE (100 * currentTime) \div videoDuration

\* the listener's throttle test: now - lastProgressUpdate >= PROGRESS_THROTTLE
passesThrottle(jb) == jb.since >= PROGRESS_THROTTLE

\* the listeners that call onProgress on a time= line
Reporting == {j \in JobIds : Listening(j) /\ jobs[j].videoDuration > 0
                              /\ passesThrottle(jobs[j])}

\* the exec of job x logs the "Duration: HH:MM:SS" line of its input; every
\* listener sets its videoDuration
LogDuration(x) ==
  /\ jobs[x].ec = "exec"
  /\ jobs[x].log = 0
  /\ jobs' = [j \in JobIds |->
                LET heard == IF Listening(j)
                             THEN [jobs[j] EXCEPT !.videoDuration =
                                                    MetadataOf(jobs[x].file).duration \div 100]
                             ELSE jobs[j]
                IN IF j = x THEN [heard EXCEPT !.log = 1] ELSE heard]
  /\ UNCHANGED <<state, adapterVars, nJobs, frame>>
  /\ render

\* the exec of job x logs a "time=HH:MM:SS" line, later than its previous one
\* and within the trimmed duration; every listener that knows a duration and
\* passes its throttle calls its onProgress, in the order of registration
LogTime(x, t) ==
  /\ jobs[x].ec = "exec"
  /\ jobs[x].log = 1
  /\ t > jobs[x].pos
  /\ 100 * t <= jobs[x].settings.endTime - jobs[x].settings.startTime
  /\ jobs' = [j \in JobIds |->
                LET heard == IF j \in Reporting
                             THEN [jobs[j] EXCEPT
                                     !.last = progressOf(t, jobs[j].videoDuration),
                                     !.since = 0]
                             ELSE jobs[j]
                IN IF j = x THEN [heard EXCEPT !.pos = t] ELSE heard]
  /\ LET calling == {j \in Reporting : jobs[j].mounted}
     IN IF calling = {} THEN UNCHANGED state
        ELSE \E j \in calling :
               state' = converterReducer(state,
                          Act("SET_PROGRESS", progressOf(t, jobs[j].videoDuration)))
  /\ UNCHANGED <<adapterVars, nJobs, frame>>
  /\ render

\* await exec(command) settles: "ok" wrote the output, "nonzero" returned a
\* failure code without output, anything else is the message of a thrown error
ExecDone(j, r) ==
  /\ jobs[j].ec = "exec"
  /\ IF r \in {"ok", "nonzero"}
     THEN /\ fs' = IF r = "ok" /\ INPUT_FILE \in fs THEN fs \cup {OUTPUT_FILE} ELSE fs
          /\ nextOperation(j, "readFile")
     ELSE /\ rejectConversion(j, r)
          /\ UNCHANGED fs
  /\ UNCHANGED <<adapterVars, nJobs, logBound, remounts, calls>>
  /\ render

\* await readFile(output.gif) settles
ReadFileDone(j) ==
  /\ jobs[j].ec = "readFile"
  /\ IF OUTPUT_FILE \in fs THEN nextOperation(j, "deleteInput")
     ELSE rejectConversion(j, MSG_FAIL_ENGINE)
  /\ UNCHANGED <<adapterVars, nJobs, frame>>
  /\ render

\* await deleteFile(input.mp4) settles
DeleteInputDone(j) ==
  /\ jobs[j].ec = "deleteInput"
  /\ IF INPUT_FILE \in fs
     THEN /\ fs' = fs \ {INPUT_FILE}
          /\ nextOperation(j, "deleteOutput")
     ELSE /\ rejectConversion(j, MSG_FAIL_ENGINE)
          /\ UNCHANGED fs
  /\ UNCHANGED <<adapterVars, nJobs, logBound, remounts, calls>>
  /\ render

\* await deleteFile(output.gif) settles; onProgress(100); the blob is returned
\* and handleConvert, if its race is still open, clears the timer and stores it
DeleteOutputDone(j) ==
  /\ jobs[j].ec = "deleteOutput"
  /\ IF OUTPUT_FILE \in fs
     THEN /\ fs' = fs \ {OUTPUT_FILE}
          /\ LET jb == jobs[j]
                 s1 == dispatchFrom(jb, state, <<Act("SET_PROGRESS", 100)>>)
             IN IF jb.pc = "race"
                THEN /\ state' = dispatchFrom(jb, s1, <<Act("SET_GIF_BLOB", jb.file)>>)
                     /\ jobs' = [jobs EXCEPT ![j] = DoneJob]
                ELSE /\ state' = s1
                     /\ jobs' = [jobs EXCEPT ![j] = retire([jb EXCEPT !.ec = "resolved"])]
     ELSE /\ rejectConversion(j, MSG_FAIL_ENGINE)
          /\ UNCHANGED fs
  /\ UNCHANGED <<adapterVars, nJobs, logBound, remounts, calls>>
  /\ render

\* setTimeout(CONVERSION_TIMEOUT) fires: timeoutController.abort(); the abort
\* listener, if it has been added, rejects the timeout promise of the race
ConversionTimerFire(j) ==
  /\ jobs[j].timer = "armed"
  /\ jobs[j].left = 0
  /\ LET jb == [jobs[j] EXCEPT !.timer = "fired"]
         r  == IF jb.pc = "race" THEN handleConvertCatch(state, jb, MSG_CONV_TIMEOUT)
               ELSE [s |-> state, jb |-> jb]
     IN /\ state' = r.s
        /\ jobs' = [jobs EXCEPT ![j] = r.jb]
  /\ UNCHANGED <<adapterVars, nJobs, frame>>
  /\ render

\* ------------------------------------------------------------------- time
\* the times left on the timers that are running
Deadlines == {loads[a].left : a \in {x \in LoadIds : loads[x].timer = "armed"}}
             \cup {jobs[j].left : j \in {x \in JobIds : jobs[x].timer = "armed"}}

\* a job after d ms: its timer and the age of its listener's last report
elapsed(jb, d) ==
  [jb EXCEPT !.left  = IF jb.timer = "armed" THEN @ - d ELSE @,
             !.since = IF @ + d > PROGRESS_THROTTLE THEN PROGRESS_THROTTLE ELSE @ + d]

\* d ms pass; a timer fires when it is due, so no wait outlasts one
advance(d) ==
  /\ d > 0
  /\ \A t \in Deadlines : d <= t
  /\ loads' = [a \in LoadIds |->
                 IF loads[a].timer = "armed"
                 THEN [loads[a] EXCEPT !.left = @ - d] ELSE loads[a]]
  /\ jobs' = [j \in JobIds |-> elapsed(jobs[j], d)]
  /\ UNCHANGED <<state, ffmpeg, loaded, initPromise, nLoads, nJobs, fs, logBound,
                 remounts, calls>>
  /\ render

\* time passes until the next timer is due
TickToDeadline == \E d \in Deadlines : advance(d)

\* PROGRESS_THROTTLE ms pass while a listener is holding reports back
ThrottleWait ==
  /\ \E j \in JobIds : Listening(j) /\ ~passesThrottle(jobs[j])
  /\ advance(PROGRESS_THROTTLE)

\* ------------------------------------------- the service as other callers see it
NoCall == [st |-> "unused", on |-> 0, err |-> ""]

\* some caller invokes ffmpegService.initialize() and keeps the promise it got
CallInitialize(c) ==
  /\ calls[c].st = "unused"
  /\ LET a == initializeResult
     IN /\ initialize
        /\ calls' = [calls EXCEPT ![c] =
                       [st  |-> IF a = 0 \/ (a <= nLoads /\ loads[a].phase = "resolved")
                                THEN "resolved" ELSE "waiting",
                        on  |-> a,
                        err |-> ""]]
  /\ UNCHANGED <<state, jobs, nJobs, fs, logBound, remounts>>
  /\ render

\* some caller invokes ffmpegService.terminate()
CallTerminate ==
  /\ terminate
  /\ UNCHANGED <<state, jobs, nJobs, frame>>
  /\ render

\* ---------------------------------------------------------- specification
\* no helper call is followed
NoProbe == [fn |-> "none", arg |-> 0, out |-> 0, done |-> FALSE]

PageInit ==
  /\ state = initialState
  /\ ffmpeg = 0 /\ loaded = FALSE /\ initPromise = 0
  /\ loads = [a \in LoadIds |-> NoLoad]
  /\ nLoads = 0
  /\ jobs = [j \in JobIds |-> NoJob]
  /\ nJobs = 0
  /\ fs = {}
  /\ logBound = FALSE
  /\ remounts = 0
  /\ previewPending = FALSE
  /\ timeline = NoTimeline
  /\ calls = [c \in CallIds |-> NoCall]

Init == PageInit /\ probe = NoProbe

\* the page and the engine with every failure, timer and remount; the progress
\* reports of the log listener are followed in SpecSession and SpecProgress
\* Convert and Retry pressed at most MaxPageConverts times in all
PageConvertPress == nJobs < MaxPageConverts /\ ConvertPress
PageRetry == nJobs < MaxPageConverts /\ HandleRetry

Next ==
  \/ \E f \in Files : HandleFileSelect(f)
  \/ HandleMetadataLoad
  \/ PageConvertPress
  \/ PageRetry
  \/ HandleReset
  \/ DismissError
  \/ Remount
  \/ \E a \in LoadIds, ok \in BOOLEAN : FetchCoreDone(a, ok)
  \/ \E a \in LoadIds, ok \in BOOLEAN : FetchWasmDone(a, ok)
  \/ \E a \in LoadIds, m \in {"", MSG_WASM} : LoadDone(a, m)
  \/ \E a \in LoadIds : LoadTimerFire(a)
  \/ \E a \in LoadIds : AbandonedLoadDone(a)
  \/ \E j \in JobIds : FetchFileDone(j)
  \/ \E j \in JobIds, ok \in BOOLEAN : WriteFileDone(j, ok)
  \/ \E j \in JobIds, r \in {"ok", "nonzero", MSG_FAIL_OOM} : ExecDone(j, r)
  \/ \E j \in JobIds : ReadFileDone(j)
  \/ \E j \in JobIds : DeleteInputDone(j)
  \/ \E j \in JobIds : DeleteOutputDone(j)
  \/ \E j \in JobIds : ConversionTimerFire(j)
  \/ TickToDeadline

Spec == Init /\ [][Next]_vars

\* the page pressed MaxConverts times while no timer fires and the page stays
\* mounted: Convert and Retry in every status, with every failure of the engine
NextBusy ==
  \/ \E f \in Files : HandleFileSelect(f)
  \/ HandleMetadataLoad
  \/ ConvertPress
  \/ HandleRetry
  \/ HandleReset
  \/ DismissError
  \/ \E a \in LoadIds, ok \in BOOLEAN : FetchCoreDone(a, ok)
  \/ \E a \in LoadIds, ok \in BOOLEAN : FetchWasmDone(a, ok)
  \/ \E a \in LoadIds, m \in {"", MSG_WASM} : LoadDone(a, m)
  \/ \E j \in JobIds : FetchFileDone(j)
  \/ \E j \in JobIds, ok \in BOOLEAN : WriteFileDone(j, ok)
  \/ \E j \in JobIds, r \in {"ok", "nonzero", MSG_FAIL_OOM} : ExecDone(j, r)
  \/ \E j \in JobIds : ReadFileDone(j)
  \/ \E j \in JobIds : DeleteInputDone(j)
  \/ \E j \in JobIds : DeleteOutputDone(j)

SpecBusy == Init /\ [][NextBusy]_vars

\* the adapter alone, driven through its interface in every order
NextAdapter ==
  \/ \E c \in CallIds : CallInitialize(c)
  \/ CallTerminate
  \/ \E a \in LoadIds, ok \in BOOLEAN : FetchCoreDone(a, ok)
  \/ \E a \in LoadIds, ok \in BOOLEAN : FetchWasmDone(a, ok)
  \/ \E a \in LoadIds, m \in {"", MSG_WASM} : LoadDone(a, m)
  \/ \E a \in LoadIds : LoadTimerFire(a)
  \/ \E a \in LoadIds : AbandonedLoadDone(a)
  \/ TickToDeadline

SpecAdapter == Init /\ [][NextAdapter]_vars

\* one editing session of the page: the user selects, edits, converts, retries
\* and resets, with at most MaxSessionConverts presses of Convert and
\* MaxSessionRetries presses of Retry
SessionConvertPress == nJobs < MaxSessionConverts /\ ConvertPress
SessionRetry == nJobs < MaxSessionConverts + MaxSessionRetries /\ HandleRetry

\* the settings of s that differ from the defaults (height follows width)
Edited(s) ==
  LET md == MetadataOf(s.videoMetadata)
  IN {k \in {"quality", "frameRate", "width", "startTime", "endTime"} :
        s.settings[k] # (CASE k = "quality"   -> 80
                           [] k = "frameRate" -> 15
                           [] k = "width"     -> IF md.width < 800 THEN md.width ELSE 800
                           [] k = "startTime" -> 0
                           [] k = "endTime"   -> md.duration)}

SessionSettingsChange(e) ==
  /\ HandleSettingsChange(e)
  /\ Cardinality(Edited(state')) <= MaxEdits

SessionTimeRangeChange(r) ==
  /\ HandleTimeRangeChange(r)
  /\ Cardinality(Edited(state')) <= MaxEdits

NextSession ==
  \/ \E f \in Files : HandleFileSelect(f)
  \/ HandleMetadataLoad
  \/ \E e \in ControlEdits : SessionSettingsChange(e)
  \/ \E r \in TimeRanges : SessionTimeRangeChange(r)
  \/ SessionConvertPress
  \/ SessionRetry
  \/ HandleReset
  \/ DismissError
  \/ \E a \in LoadIds, ok \in BOOLEAN : FetchCoreDone(a, ok)
  \/ \E a \in LoadIds, ok \in BOOLEAN : FetchWasmDone(a, ok)
  \/ \E a \in LoadIds, m \in {"", MSG_WASM} : LoadDone(a, m)
  \/ \E j \in JobIds : FetchFileDone(j)
  \/ \E j \in JobIds, ok \in BOOLEAN : WriteFileDone(j, ok)
  \/ \E j \in JobIds, p \in ProgressValues : Progress(j, p)
  \/ \E j \in JobIds, r \in {"ok", "nonzero", MSG_FAIL_OOM} : ExecDone(j, r)
  \/ \E j \in JobIds : ReadFileDone(j)
  \/ \E j \in JobIds : DeleteInputDone(j)
  \/ \E j \in JobIds : DeleteOutputDone(j)
  \/ \E j \in JobIds : ConversionTimerFire(j)
  \/ TickToDeadline

SpecSession == Init /\ [][NextSession]_vars

\* the progress reports of conversions that run to their end: the engine loads
\* and works without failures, its log lines and the waits between them are
\* followed, and the user may reset and convert again
ProgressConvertPress == nJobs < MaxProgressConverts /\ ConvertPress

NextProgress ==
  \/ \E f \in Files : HandleFileSelect(f)
  \/ HandleMetadataLoad
  \/ ProgressConvertPress
  \/ HandleReset
  \/ \E a \in LoadIds : FetchCoreDone(a, TRUE)
  \/ \E a \in LoadIds : FetchWasmDone(a, TRUE)
  \/ \E a \in LoadIds : LoadDone(a, "")
  \/ \E j \in JobIds : FetchFileDone(j)
  \/ \E j \in JobIds : WriteFileDone(j, TRUE)
  \/ \E j \in JobIds : LogDuration(j)
  \/ \E j \in JobIds, t \in LogTimes : LogTime(j, t)
  \/ \E j \in JobIds : ExecDone(j, "ok")
  \/ \E j \in JobIds : ReadFileDone(j)
  \/ \E j \in JobIds : DeleteInputDone(j)
  \/ \E j \in JobIds : DeleteOutputDone(j)
  \/ ThrottleWait

SpecProgress == Init /\ [][NextProgress]_vars

\* the trim controls alone: a file, its metadata (twice, once from each
\* preview), the playhead and every control of VideoTimeline
NextTimeline ==
  \/ \E f \in Files : HandleFileSelect(f)
  \/ HandleMetadataLoad
  \/ \E time \in Playheads : HandleVideoTimeUpdate(time)
  \/ HandleMarkIn
  \/ HandleMarkOut
  \/ \E value \in TimeTexts : HandleStartTimeInputChange(value)
  \/ \E value \in TimeTexts : HandleEndTimeInputChange(value)
  \/ HandleStartTimeInputBlur
  \/ HandleEndTimeInputBlur
  \/ ResetToFullDuration
  \/ HandleReset

SpecTimeline == Init /\ [][NextTimeline]_vars

\* convert against an adapter that may be unready: a session with two
\* converts in which the engine can be terminated at any moment, by the
\* unmount cleanup of the page or by another caller of the service, and
\* initialized again by another caller
UnreadyConvertPress == nJobs < MaxUnreadyConverts /\ ConvertPress

NextUnready ==
  \/ \E f \in Files : HandleFileSelect(f)
  \/ HandleMetadataLoad
  \/ UnreadyConvertPress
  \/ DismissError
  \/ Remount
  \/ CallTerminate
  \/ \E c \in CallIds : CallInitialize(c)
  \/ \E a \in LoadIds, ok \in BOOLEAN : FetchCoreDone(a, ok)
  \/ \E a \in LoadIds, ok \in BOOLEAN : FetchWasmDone(a, ok)
  \/ \E a \in LoadIds, m \in {"", MSG_WASM} : LoadDone(a, m)
  \/ \E j \in JobIds : FetchFileDone(j)
  \/ \E j \in JobIds, ok \in BOOLEAN : WriteFileDone(j, ok)
  \/ \E j \in JobIds, r \in {"ok", "nonzero"} : ExecDone(j, r)
  \/ \E j \in JobIds : ReadFileDone(j)
  \/ \E j \in JobIds : DeleteInputDone(j)
  \/ \E j \in JobIds : DeleteOutputDone(j)

SpecUnready == Init /\ [][NextUnready]_vars

\* one conversion left to itself: the user selects a file and presses Convert
\* once; the downloads, the engine load and the engine calls settle or never
\* do; the timers of the page and of the adapter fire when they are due
NextLive ==
  \/ \E f \in Files : HandleFileSelect(f)
  \/ HandleMetadataLoad
  \/ SessionConvertPress
  \/ \E a \in LoadIds, ok \in BOOLEAN : FetchCoreDone(a, ok)
  \/ \E a \in LoadIds, ok \in BOOLEAN : FetchWasmDone(a, ok)
  \/ \E a \in LoadIds, m \in {"", MSG_WASM} : LoadDone(a, m)
  \/ \E a \in LoadIds : LoadTimerFire(a)
  \/ \E a \in LoadIds : AbandonedLoadDone(a)
  \/ \E j \in JobIds : FetchFileDone(j)
  \/ \E j \in JobIds, ok \in BOOLEAN : WriteFileDone(j, ok)
  \/ \E j \in JobIds, r \in {"ok", "nonzero", MSG_FAIL_OOM} : ExecDone(j, r)
  \/ \E j \in JobIds : ReadFileDone(j)
  \/ \E j \in JobIds : DeleteInputDone(j)
  \/ \E j \in JobIds : DeleteOutputDone(j)
  \/ \E j \in JobIds : ConversionTimerFire(j)
  \/ TickToDeadline

\* setTimeout callbacks run once their delay has passed
TimersFire ==
  /\ WF_vars(TickToDeadline)
  /\ \A a \in LoadIds : WF_vars(LoadTimerFire(a))
  /\ \A j \in JobIds : WF_vars(ConversionTimerFire(j))

SpecLive == Init /\ [][NextLive]_vars /\ TimersFire

\* ---- calls of the pure helpers ----

\* a helper call leaves the page and the engine alone
pageUnchanged ==
  UNCHANGED <<state, adapterVars, jobs, nJobs, frame, previewPending, timeline>>

\* the calls of fn that are about to be made, one for each argument
Calls(fn, args) == {[fn |-> fn, arg |-> x, out |-> 0, done |-> FALSE] : x \in args}

\* the call returns result
Returns(fn, result) ==
  /\ probe.fn = fn /\ ~probe.done
  /\ probe' = [probe EXCEPT !.out = result, !.done = TRUE]
  /\ pageUnchanged

\* the settings objects handed to validateSettings (times in hundredths of a
\* second)
ValidatedSettings ==
  [quality   : {Num(0), Num(1), Num(100), Num(101), NaN},
   frameRate : {Num(10), Num(12), Num(15), Num(20), Num(24), Num(30), NaN},
   width     : {Num(99), Num(100), Num(1920), Num(1921), NaN},
   height    : {Num(99), Num(100), Num(1920), Num(1921), NaN},
   startTime : {Num(0), Num(500), Num(0 - 100)},
   endTime   : {Num(300), Num(500), Num(100000)}]

ValidateSettings == Returns("validateSettings", validateSettings(probe.arg))

InitValidate == PageInit /\ probe \in Calls("validateSettings", ValidatedSettings)

SpecValidate == InitValidate /\ [][ValidateSettings]_vars

\* the settings a command is built for: every quality of the slider, two
\* frame rates, two sizes and three trim ranges
CommandSettings ==
  { [quality |-> q, frameRate |-> fr, width |-> d[1], height |-> d[2],
     startTime |-> r[1], endTime |-> r[2]] :
      q \in 1..100, fr \in {10, 30}, d \in {<<800, 450>>, <<480, 270>>},
      r \in {<<0, 1000>>, <<113, 995>>, <<5, 15>>} }

BuildFFmpegCommand ==
  Returns("buildFFmpegCommand", buildFFmpegCommand(INPUT_FILE, OUTPUT_FILE, probe.arg))

InitCommand == PageInit /\ probe \in Calls("buildFFmpegCommand", CommandSettings)

SpecCommand == InitCommand /\ [][BuildFFmpegCommand]_vars

\* ---- FileUploadZone, checkFileSize and FileSizeWarning ----
\* a MIME type is the sequence of its pieces, cut where an accepted format ends
ACCEPTED_FORMATS ==
  {<<"video/mp4">>, <<"video/webm">>, <<"video/quicktime">>, <<"video/x-msvideo">>}

MAX_FILE_SIZE     == 500 * 1024 * 1024
WARNING_THRESHOLD == 200 * 1024 * 1024

MSG_FORMAT == "Unsupported file format"
MSG_SIZE   == "File size exceeds 500MB limit"
NoMessage  == ""

\* String.prototype.startsWith
startsWith(text, prefix) ==
  Len(text) >= Len(prefix) /\ SubSeq(text, 1, Len(prefix)) = prefix

\* a validator that also turns away a file of exactly MAX_FILE_SIZE bytes
validateFile_AtLimit(file, acceptedFormats) ==
  IF ~\E format \in acceptedFormats : startsWith(file.type, format) THEN MSG_FORMAT
  ELSE IF file.size >= MAX_FILE_SIZE THEN MSG_SIZE
  ELSE NoMessage

\* validateFile of FileUploadZone: the error text, or null (NoMessage)
validateFile(file, acceptedFormats) ==
  IF ~\E format \in acceptedFormats : startsWith(file.type, format) THEN MSG_FORMAT
  ELSE IF file.size > MAX_FILE_SIZE THEN MSG_SIZE
  ELSE NoMessage

\* checkFileSize of utils/browser-compatibility (MAX_SIZE, WARNING_SIZE)
checkFileSize(fileSize) ==
  IF fileSize > 500 * 1024 * 1024 THEN [isValid |-> FALSE, isLarge |-> TRUE]
  ELSE IF fileSize > 200 * 1024 * 1024 THEN [isValid |-> TRUE, isLarge |-> TRUE]
  ELSE [isValid |-> TRUE, isLarge |-> FALSE]

\* FileSizeWarning renders its card (TRUE) or null
FileSizeWarning(fileSize) == ~(fileSize <= WARNING_THRESHOLD)

\* the page renders FileSizeWarning for the uploaded file, whose size is fileSize
showsFileSizeWarning(s, fileSize) == s.uploadedFile # 0 /\ FileSizeWarning(fileSize)

\* the files the user drops on the zone or picks in the dialog
UploadTypes ==
  {<<"video/mp4">>, <<"video/webm">>, <<"video/quicktime">>, <<"video/x-msvideo">>,
   <<"video/mp4", "v-es">>, <<"video/x-matroska">>, <<"image/gif">>, <<>>}

UploadSizes ==
  {1, WARNING_THRESHOLD - 1, WARNING_THRESHOLD, WARNING_THRESHOLD + 1,
   MAX_FILE_SIZE - 1, MAX_FILE_SIZE, MAX_FILE_SIZE + 1, 2 * MAX_FILE_SIZE}

UploadFiles == [id : Files, type : UploadTypes, size : UploadSizes]

\* handleFile of FileUploadZone with the file probe.arg, from a drop or from
\* the file dialog; the zone is rendered while no file is selected; out is
\* the error the zone shows
HandleFile ==
  /\ probe.fn = "handleFile"
  /\ state.uploadedFile = 0
  /\ state.conversionStatus # "loading"               \* disabled: return
  /\ LET validationError == validateFile(probe.arg, ACCEPTED_FORMATS)
     IN IF validationError # NoMessage
        THEN /\ probe' = [probe EXCEPT !.out = validationError, !.done = TRUE]
             /\ pageUnchanged
        ELSE HandleFileSelect(probe.arg.id)

\* the zone shows no error at first
InitUpload ==
  PageInit /\ probe \in {[c EXCEPT !.out = NoMessage] : c \in Calls("handleFile", UploadFiles)}

\* the user offers one file, again and again, and resets the page
NextUpload ==
  \/ HandleFile
  \/ HandleMetadataLoad
  \/ HandleReset

SpecUpload == InitUpload /\ [][NextUpload]_vars

\* ---- the file name of the download ----
\* a file name is the sequence of its characters
Letters == {"a", "g", "i", "f", "Z"}

GIF_EXTENSION == <<".", "g", "i", "f">>

\* name.replace(/\.[^/.]+$/, replacement): the match starts at a "." that is
\* followed, up to the end of the name, by one or more characters other than
\* "/" and "."
replaceExtension(name, replacement) ==
  LET starts == {i \in 1..Len(name) :
                   /\ name[i] = "."
                   /\ i < Len(name)
                   /\ \A j \in (i + 1)..Len(name) : name[j] \notin {"/", "."}}
  IN IF starts = {} THEN name
     ELSE LET i == CHOOSE x \in starts : \A y \in starts : x <= y
          IN SubSeq(name, 1, i - 1) \o replacement

\* nameWithoutExt.replace(/[^a-zA-Z0-9-_]/g, "_")
sanitize(name) ==
  [i \in 1..Len(name) |->
     IF name[i] \in Letters \cup {Digits[d] : d \in 1..Len(Digits)} \cup {"-", "_"}
     THEN name[i] ELSE "_"]

\* generateGifFilename of utils/browser-compatibility
generateGifFilename(originalFileName) ==
  sanitize(replaceExtension(originalFileName, <<>>)) \o GIF_EXTENSION

\* generateGifFilename of DownloadSection
sectionGifFilename(originalFileName) ==
  replaceExtension(originalFileName, <<>>) \o GIF_EXTENSION

\* a.download of the Download GIF button of the page, for the uploaded file
downloadName(name) == replaceExtension(name, GIF_EXTENSION)

\* the names of the source files: up to MaxNameLen characters
NameChars == {"a", "Z", "1", "-", "_", " ", "."}

RECURSIVE NamesOfLen(_)
NamesOfLen(n) ==
  IF n = 0 THEN {<<>>}
  ELSE {Append(name, c) : name \in NamesOfLen(n - 1), c \in NameChars}

SourceNames == UNION {NamesOfLen(n) : n \in 1..MaxNameLen}

\* the three places that name the download, for the source name probe.arg
DownloadNames ==
  Returns("downloadNames",
          [page    |-> downloadName(probe.arg),
           section |-> sectionGifFilename(probe.arg),
           utility |-> generateGifFilename(probe.arg)])

InitFilename == PageInit /\ probe \in Calls("downloadNames", SourceNames)

SpecFilename == InitFilename /\ [][DownloadNames]_vars

\* ---- the settings derived when the metadata arrives ----
\* the metadata the preview reports: small, usual, large, wide and tall frames
SourceWidths  == {50, 64, 100, 640, 800, 1280, 1920, 4000}
SourceHeights == {40, 64, 100, 480, 720, 1080, 1920, 4000}

SourceMetadata ==
  [duration : {1000}, width : SourceWidths, height : SourceHeights, frameRate : {30}]

\* SET_METADATA dispatched with the metadata probe.arg on the page that holds
\* a file, and getDefaultSettings of the same metadata
SetMetadata ==
  Returns("setMetadata",
          [settings |-> reduceSetMetadataOf(reduceSetFile(initialState, 1), 1,
                                            probe.arg).settings,
           defaults |-> getDefaultSettings(probe.arg)])

InitDefaults == PageInit /\ probe \in Calls("setMetadata", SourceMetadata)

SpecDefaults == InitDefaults /\ [][SetMetadata]_vars

\* the frame sizes of the sources whose aspect ratio the conversions use:
\* 16:9, 4:3, 4:1, 1:4, 1:1, 3:1 and 5:4
AspectSources ==
  { [width |-> d[1], height |-> d[2]] :
      d \in {<<1920, 1080>>, <<640, 480>>, <<1920, 480>>, <<480, 1920>>,
             <<1000, 1000>>, <<3000, 1000>>, <<50, 40>>} }

\* calculateHeightFromWidth(w, r), then calculateWidthFromHeight of the
\* height it returned, for the same r
DeriveWidth ==
  Returns("deriveWidth",
          LET md == probe.arg.md
              height == calculateHeightFromWidth(probe.arg.width, md)
          IN [height |-> height, width |-> calculateWidthFromHeight(height, md)])

InitAspect ==
  PageInit /\ probe \in Calls("deriveWidth",
                              [width : MinWidth..MaxWidth, md : AspectSources])

SpecAspect == InitAspect /\ [][DeriveWidth]_vars

\* formatTime(x), then parseTime of the text, then the comparison of the
\* difference with 0.01, for the double x = arg / 100
RoundTrip ==
  Returns("roundTrip",
          LET x == Double(probe.arg)
              text == formatTime(probe.arg, floorsLow(x))
              parsed == parseTime(text)
          IN [text |-> text, parsed |-> parsed,
              exceeds |-> /\ parsed.kind = "number"
                          /\ exceedsHundredth(x, plus(parsed.v \div 100,
                                                      Double(parsed.v % 100)))])

InitRoundTrip == PageInit /\ probe \in Calls("roundTrip", 0..(100 * MaxSeconds))

SpecRoundTrip == InitRoundTrip /\ [][RoundTrip]_vars

\* the texts handed to parseTime: one to three ":"-fields of one or two
\* "."-parts, a part being "", "5", "12", "x" or "1x"
ParsedParts == {<<>>, <<"5">>, <<"1", "2">>, <<"x">>, <<"1", "x">>}

ParsedFields == {<<p>> : p \in ParsedParts} \cup (ParsedParts \X ParsedParts)

ParsedTexts ==
  {<<f>> : f \in ParsedFields} \cup (ParsedFields \X ParsedFields)
    \cup (ParsedFields \X ParsedFields \X ParsedFields)

ParseTime == Returns("parseTime", parseTime(probe.arg))

InitParse == PageInit /\ probe \in Calls("parseTime", ParsedTexts)

SpecParse == InitParse /\ [][ParseTime]_vars


\* ================================================================ properties
Status == state.conversionStatus
EngineCalls == {j \in JobIds : jobs[j].ec \in InFlight}
PendingLoads == {a \in LoadIds : loads[a].phase \in PendingPhases}
EngineLoads == {a \in LoadIds : loads[a].engine = "running"}

\* C1: invoking handleConvert while conversionStatus is processing or loading
\* is a no-op: it changes no orchestrator state and starts no further engine
\* initialize or convert call.
C1_ConvertWhileBusyIsNoOp ==
  [][(Status \in {"processing", "loading"} /\ nJobs' = nJobs + 1)
       => /\ state' = state
          /\ nLoads' = nLoads
          /\ \A j \in JobIds : jobs'[j].ec \in InFlight => jobs[j].ec \in InFlight]_vars

\* C2: at most one convertToGif call is in flight on the engine at any time.
C2_OneEngineCallInFlight == Cardinality(EngineCalls) <= 1

\* C3: conversionStatus moves only along idle -> loading -> processing ->
\* {complete | error} (idle -> processing when the engine is ready, loading ->
\* error on load failure); complete and error are left by a reset or a file
\* selection (to idle) or, for error, by a retried convert; complete is entered
\* only from processing and processing only by a convert invocation.
StatusEdges ==
  {<<"idle", "loading">>, <<"idle", "processing">>, <<"loading", "processing">>,
   <<"processing", "complete">>, <<"processing", "error">>, <<"loading", "error">>,
   <<"error", "loading">>, <<"error", "processing">>,
   <<"complete", "idle">>, <<"error", "idle">>, <<"loading", "idle">>,
   <<"processing", "idle">>}

C3_StatusMachine ==
  [][/\ Status' # Status => <<Status, Status'>> \in StatusEdges
     /\ (Status' = "processing" /\ Status # "processing")
          => (nJobs' = nJobs + 1 \/ \E j \in JobIds : jobs[j].pc = "init")]_vars

\* C4: when the engine's convert call never settles, the timeout error is
\* surfaced exactly CONVERSION_TIMEOUT after the conversion step started, and
\* it is always surfaced: the race always has a running timer, and a job that
\* timed out had the whole window left when its conversion step started.
C4_TimeoutAfterFullWindow ==
  \A j \in JobIds :
    /\ jobs[j].pc = "race" => jobs[j].timer = "armed"
    /\ jobs[j].outcome = "timeout" => jobs[j].procLeft = CONVERSION_TIMEOUT

\* C5: after a conversion that ended in an engine failure or in a timeout, no
\* engine call of that job is still in progress.
C5_NoEngineCallAfterFailure ==
  \A j \in JobIds :
    (jobs[j].pc = "done" /\ jobs[j].outcome \in {"error", "timeout"})
      => jobs[j].ec \notin InFlight

\* C6: when a convertToGif call that staged its input settles, on success or on
\* failure, neither input.mp4 nor output.gif is left in the engine's filesystem.
C6_StagedFilesRemoved ==
  [][\A j \in JobIds :
       (jobs[j].ec \in Staged /\ jobs'[j].ec \notin InFlight)
         => fs' \cap {INPUT_FILE, OUTPUT_FILE} = {}]_vars

\* C7: initialize() is idempotent and shared: a call made while the adapter is
\* ready starts no load and returns at once; a call made while a load is in
\* flight starts no load and receives that attempt's promise; at most one
\* initialize attempt is pending and at most one engine load (ffmpeg.load)
\* runs at a time, and callers of one attempt see one outcome.
C7_InitializeShared ==
  /\ [](Cardinality(PendingLoads) <= 1)
  /\ [](Cardinality(EngineLoads) <= 1)
  /\ [](\A c, d \in CallIds :
          (calls[c].st # "unused" /\ calls[d].st # "unused" /\ calls[c].on = calls[d].on
             /\ calls[c].on # 0)
            => (calls[c].st = calls[d].st /\ calls[c].err = calls[d].err))
  /\ [][\A c \in CallIds :
          (calls[c].st = "unused" /\ calls'[c].st # "unused")
            => /\ isLoaded => (nLoads' = nLoads /\ calls'[c].st = "resolved")
               /\ \A a \in PendingLoads :
                    nLoads' = nLoads /\ calls'[c].on = a /\ calls'[c].st = "waiting"]_vars

\* C8: terminate() leaves the adapter uninitialized in whatever state it is
\* called: whenever the engine instance has been released, isLoaded() is false
\* and the next initialize() performs a fresh engine load.
C8_TerminateResets == (ffmpeg = 0) => (~isLoaded /\ initializeStartsLoad)

\* C9: when the engine load fails or times out, initialize() rejects with a
\* classified error, loaded is false and no attempt is retained, and the next
\* initialize() call starts a new load instead of returning the failed attempt.
InitErrors == {MSG_INIT_SLOW, MSG_INIT_NET, MSG_INIT_WASM, MSG_INIT_OTHER}

C9_FailedLoadResets ==
  /\ [](\A c \in CallIds : calls[c].st = "rejected" => calls[c].err \in InitErrors)
  /\ [](initPromise # 0 => loads[initPromise].phase # "rejected")
  /\ [][/\ \A a \in LoadIds :
             (loads[a].phase \in PendingPhases /\ loads'[a].phase = "rejected")
               => (~loaded' /\ initPromise' = 0
                   /\ \A c \in CallIds :
                        (calls[c].st = "waiting" /\ calls[c].on = a)
                          => calls'[c].st = "rejected")
        /\ \A c \in CallIds :
             (calls[c].st = "unused" /\ calls'[c].st # "unused"
                /\ nLoads > 0 /\ loads[nLoads].phase = "rejected")
               => (nLoads' = nLoads + 1 /\ calls'[c].on = nLoads'
                   /\ loads'[nLoads'].phase = "fetchCore")]_vars

C9_Witness ==
  /\ nLoads = 2
  /\ loads[1].phase = "rejected"
  /\ loads[2].phase \in PendingPhases
  /\ \E c, d \in CallIds : calls[c].st = "rejected" /\ calls[d].on = 2

\* C10: every initialize() call has settled once LOAD_TIMEOUT has elapsed since
\* it started the load, whichever step of the load stalls.
C10_InitializeSettlesByTimeout ==
  \A a \in LoadIds : loads[a].timer = "fired" => loads[a].phase \notin PendingPhases

\* C11: when the convertToGif call of a handleConvert whose race is open
\* resolves, the blob is stored, the status becomes complete and the progress
\* 100 in that one step, and the job's timer is cancelled: a finished job has
\* no running timer, and a timeout error is surfaced only by a job whose race
\* is still open.
Resolves(j) ==
  /\ jobs[j].pc = "race"
  /\ jobs[j].ec = "deleteOutput"
  /\ OUTPUT_FILE \in fs
  /\ jobs'[j].ec # "deleteOutput"

C11_ResolveCompletes ==
  /\ [][\A j \in JobIds :
          Resolves(j)
            => /\ jobs[j].mounted
                    => state' = [state EXCEPT !.gifBlob = jobs[j].file,
                                              !.conversionStatus = "complete",
                                              !.progress = 100]
               /\ jobs'[j].pc = "done"
               /\ jobs'[j].timer # "armed"]_vars
  /\ [](\A j \in JobIds : jobs[j].pc = "done" => jobs[j].timer # "armed")
  /\ [][(state'.error.message = MSG_CONV_TIMEOUT /\ state.error.message # MSG_CONV_TIMEOUT)
          => \E j \in JobIds : jobs[j].pc = "race" /\ jobs[j].timer = "armed"
                                 /\ jobs[j].left = 0]_vars

C11_Witness ==
  /\ state.conversionStatus = "complete"
  /\ state.gifBlob # 0
  /\ state.progress = 100
  /\ \E j \in JobIds : jobs[j].pc = "done"

\* C12: when a pending handleConvert ends in its catch branch (engine failure,
\* load failure or timeout), the status becomes error and the error is
\* recoverable with handleConvert as retry action, bound to the file and the
\* settings of the failed invocation; a Retry step starts a handleConvert with
\* exactly that file and those settings, whatever the settings are by then.
Fails(j) ==
  /\ jobs[j].pc \in {"init", "race"}
  /\ jobs'[j].pc = "done"
  /\ ~Resolves(j)

C12_FailureOffersRetry ==
  /\ [][(\E j \in JobIds : Fails(j) /\ jobs[j].mounted)
          => /\ state'.conversionStatus = "error"
             /\ state'.error.type = "conversion"
             /\ state'.error.recoverable
             /\ state'.error.retryAction = "handleConvert"
             /\ \E j \in JobIds :
                  /\ Fails(j) /\ jobs[j].mounted
                  /\ state'.error.retryFile = jobs[j].file
                  /\ state'.error.retrySettings = jobs[j].settings]_vars
  /\ [][HandleRetry
          => /\ nJobs' = nJobs + 1
             /\ jobs'[nJobs'].pc # "done"
                  => /\ jobs'[nJobs'].file = state.error.retryFile
                     /\ jobs'[nJobs'].settings = state.error.retrySettings]_vars

C12_Witness ==
  /\ nJobs = 2
  /\ jobs[2].pc \in {"init", "race"}
  /\ jobs[2].file = state.uploadedFile
  /\ state.videoMetadata # 0
  /\ jobs[2].settings # state.settings

\* C13: an error left by a failed engine initialization (its message is one
\* of the messages initialize() rejects with, as the page words it) is of type
\* ffmpeg and is retried by initializing again; it is never of type conversion.
InitFailureMessages ==
  InitErrors \cup {initializeFFmpegError(m) : m \in InitErrors}

C13_InitFailureIsFfmpegError ==
  state.error.message \in InitFailureMessages
    => /\ state.error.type = "ffmpeg"
       /\ state.error.retryAction = "initializeFFmpeg"

\* C14: while a convertToGif call is in flight, the values its listener passes
\* to onProgress never decrease and lie in 0..100, and the call that resolves
\* delivers 100 last.
C14_ProgressMonotone ==
  /\ [](\A j \in JobIds : jobs[j].last \in 0..100)
  /\ [][\A j \in JobIds :
          (jobs[j].ec \in InFlight /\ jobs'[j].ec \in InFlight)
            => jobs'[j].last >= jobs[j].last]_vars
  /\ [][\A j \in JobIds :
          (Resolves(j) /\ jobs[j].mounted) => state'.progress = 100]_vars

\* C15: every onProgress call of a convertToGif call comes at least
\* PROGRESS_THROTTLE ms after the previous one of that call: a listener reports
\* only when its throttle has run out, and so does the final onProgress(100).
C15_ProgressThrottled ==
  [][\A j \in JobIds :
       /\ (Listening(j) /\ jobs'[j].since = 0 /\ jobs[j].since # 0)
            => passesThrottle(jobs[j])
       /\ (jobs[j].ec = "deleteOutput" /\ OUTPUT_FILE \in fs
              /\ jobs'[j].ec # "deleteOutput")
            => passesThrottle(jobs[j])]_vars

\* C16: once the state is at the defaults a Reset leaves (status idle, no file,
\* no gifBlob, no error, progress 0), it stays there until the next user action:
\* no step other than a file selection changes it, whatever job or engine
\* load was in flight at the Reset.
AtDefaults(s) ==
  /\ s.conversionStatus = "idle"
  /\ s.uploadedFile = 0
  /\ s.gifBlob = 0
  /\ s.error = NoError
  /\ s.progress = 0

C16_ResetDestroysJob ==
  [][(AtDefaults(state) /\ state'.uploadedFile = 0 /\ nJobs' = nJobs)
       => AtDefaults(state')]_vars

\* C17: a Reset, in whatever state it is pressed, puts every field of the state
\* back to its initial value except ffmpegLoaded, which it keeps, and it
\* touches neither the engine adapter nor the invocations in progress.
C17_ResetToDefaults ==
  [][HandleReset
       => /\ state' = [initialState EXCEPT !.ffmpegLoaded = state.ffmpegLoaded]
          /\ UNCHANGED <<ffmpeg, loaded, initPromise, loads, nLoads>>
          /\ UNCHANGED <<jobs, fs>>]_vars

\* a Reset pressed during a conversion with the engine loaded has happened
C17_Witness ==
  /\ state = [initialState EXCEPT !.ffmpegLoaded = TRUE]
  /\ isLoaded
  /\ \E j \in JobIds : jobs[j].ec \in InFlight /\ jobs[j].settings # initialSettings

\* C18: selecting a file sets uploadedFile to it, clears videoMetadata, gifBlob
\* and error, sets progress to 0 and the status to idle, and leaves settings
\* and ffmpegLoaded as they were.
C18_SetFileClears ==
  [][(state.uploadedFile = 0 /\ state'.uploadedFile # 0)
       => state' = [state EXCEPT !.uploadedFile = state'.uploadedFile,
                                 !.videoMetadata = 0,
                                 !.gifBlob = 0,
                                 !.error = NoError,
                                 !.progress = 0,
                                 !.conversionStatus = "idle"]]_vars

\* a file has been selected after a session that loaded the engine
C18_Witness ==
  /\ state.uploadedFile # 0
  /\ state.videoMetadata = 0
  /\ state.gifBlob = 0
  /\ state.conversionStatus = "idle"
  /\ state.ffmpegLoaded
  /\ nJobs > 0

\* C19: when metadata arrives, in whatever state, the settings become exactly
\* the defaults derived from it - width = min(metadata.width, 800), height =
\* round(width / aspectRatio), quality 80, frameRate 15, startTime 0, endTime =
\* duration - while conversionStatus, progress, gifBlob, error and uploadedFile
\* stay as they were, and getDefaultSettings yields the same six fields.
deriveDefaults(md) ==
  LET w == IF md.width < 800 THEN md.width ELSE 800
  IN [quality |-> 80, frameRate |-> 15, width |-> w,
      height |-> Round(w * md.height, md.width),
      startTime |-> 0, endTime |-> md.duration]

SameFields(r, q) == DOMAIN r = DOMAIN q /\ \A k \in DOMAIN r : r[k] = q[k]

C19_MetadataSetsDefaults ==
  [][HandleMetadataLoad
       => LET md == MetadataOf(state.uploadedFile)
          IN /\ SameFields(state'.settings, deriveDefaults(md))
             /\ state' = [state EXCEPT !.settings = state'.settings,
                                       !.videoMetadata = state'.videoMetadata]
             /\ SameFields(getDefaultSettings(md), deriveDefaults(md))]_vars

\* C20: a settings update changes the fields it carries and no others, and
\* while the status is processing the settings do not change: they are the
\* same at the start and at the end of every processing phase.
C20_SettingsFrozenWhileProcessing ==
  /\ [][\A r \in TimeRanges :
          HandleTimeRangeChange(r)
            => state'.settings = [state.settings EXCEPT !.startTime = r[1],
                                                        !.endTime = r[2]]]_vars
  /\ [][(Status = "processing" /\ Status' = "processing")
          => state'.settings = state.settings]_vars

\* C21: once metadata with a positive duration is present, the trim range is
\* ordered and inside the video, 0 <= startTime < endTime <= duration, in the
\* settings of the page and in the local times of VideoTimeline, whatever
\* Mark IN, Mark OUT, text commits, resets to the full duration and metadata
\* arrivals have happened with the playhead anywhere in [0, duration]
C21_TrimRangeOrdered ==
  state.videoMetadata # 0 /\ MetadataOf(state.videoMetadata).duration > 0 =>
    LET duration == MetadataOf(state.videoMetadata).duration
    IN /\ 0 <= state.settings.startTime
       /\ state.settings.startTime < state.settings.endTime
       /\ state.settings.endTime <= duration
       /\ timeline.mounted =>
            /\ 0 <= timeline.localStartTime
            /\ timeline.localStartTime < timeline.localEndTime
            /\ timeline.localEndTime <= duration

\* a start committed as text ("0.5") and an end marked the minimum gap above it
C21_Witness ==
  /\ state.videoMetadata # 0
  /\ state.settings.startTime = 5
  /\ state.settings.endTime = 15
  /\ timeline.localStartTime = 5 /\ timeline.localEndTime = 15

\* height is round(width / aspectRatio) for the settings st and the video f
InSync(st, f) == st.height = calculateHeightFromWidth(st.width, MetadataOf(f))

Within(x, lo, hi) == x.kind = "number" /\ lo <= x.v /\ x.v <= hi

\* the rules of the validator, in order, with their reasons
Rules(st) ==
  << [ok |-> Within(st.quality, 1, 100), reason |-> MSG_QUALITY],
     [ok |-> st.frameRate \in {Num(10), Num(15), Num(20), Num(24), Num(30)},
      reason |-> MSG_FRAME_RATE],
     [ok |-> Within(st.width, 100, 1920), reason |-> MSG_WIDTH],
     [ok |-> Within(st.height, 100, 1920), reason |-> MSG_HEIGHT] >>

\* C23: validateSettings returns valid exactly when quality is in [1, 100],
\* frameRate is one of 10, 15, 20, 24, 30, width is in [100, 1920] and height
\* is in [100, 1920]; otherwise it returns invalid with the reason of the
\* first rule violated, in the order quality, frame rate, width, height
C23_ValidIffRulesHold ==
  probe.fn = "validateSettings" /\ probe.done =>
    LET rules == Rules(probe.arg)
        broken == {i \in 1..Len(rules) : ~rules[i].ok}
    IN /\ probe.out.isValid <=> broken = {}
       /\ broken # {} =>
            probe.out.error = rules[CHOOSE i \in broken : \A k \in broken : i <= k].reason

\* the trim range of st is empty or reversed, starts before 0 or ends after
\* the end of every video
BadTrimRange(st) ==
  \/ st.endTime.v <= st.startTime.v
  \/ st.startTime.v < 0
  \/ \A i \in 1..Len(Videos) : st.endTime.v > Videos[i].duration

\* C24: the validator rejects every settings object whose trim range is bad
\* (endTime <= startTime, startTime < 0 or endTime > duration), and the reason
\* it gives is the one of the trim range, not of another rule; stated for the
\* settings that break no other rule
C24_BadTrimRangeRejected ==
  ( /\ probe.fn = "validateSettings" /\ probe.done
    /\ BadTrimRange(probe.arg)
    /\ \A i \in 1..4 : Rules(probe.arg)[i].ok ) =>
      /\ ~probe.out.isValid
      /\ probe.out.error \notin {MSG_QUALITY, MSG_FRAME_RATE, MSG_WIDTH, MSG_HEIGHT}

\* the number after "max_colors=" in the filter of a built command
RECURSIVE numberAfter(_, _)
numberAfter(pieces, key) ==
  IF pieces = <<>> THEN NaN
  ELSE IF Head(pieces) = key THEN parseInt(Tail(pieces))
  ELSE numberAfter(Tail(pieces), key)

PaletteSize == numberAfter(probe.out[8], "[s0]palettegen=max_colors=")

\* C25: the palette size built into the command is
\* floor(16 + (quality / 100) * 240): 16 colors at quality 1, 208 at quality 80
\* and 256 at quality 100; it never decreases when quality grows and lies in
\* [16, 256] for quality 1..100
C25_PaletteSize ==
  probe.fn = "buildFFmpegCommand" /\ probe.done =>
    LET quality == probe.arg.quality
    IN /\ PaletteSize = Num(16 + (quality * 240) \div 100)
       /\ quality = 1 => PaletteSize = Num(16)
       /\ quality = 80 => PaletteSize = Num(208)
       /\ quality = 100 => PaletteSize = Num(256)
       /\ quality > 1 => maxColors(quality - 1) <= PaletteSize.v
       /\ 16 <= PaletteSize.v /\ PaletteSize.v <= 256

\* text is the decimal numeral of x hundredths of a second with exactly
\* three decimals
Reads3(text, x) ==
  \E i \in 1..Len(text) :
    /\ text[i] = "."
    /\ Len(text) - i = 3
    /\ i > 1
    /\ \A k \in 1..Len(text) : k # i => IsDigit(text[k])
    /\ parseInt(SubSeq(text, 1, i - 1)).v * 1000
          + parseInt(SubSeq(text, i + 1, Len(text))).v = 10 * x

\* the filter chain of the statement for the settings st
FilterChain(st) ==
  <<"fps=">> \o toString(st.frameRate) \o
  <<",", "scale=">> \o toString(st.width) \o <<":">> \o toString(st.height) \o
  <<":flags=lanczos", ",", "split[s0][s1]", ",", "[s0]palettegen=max_colors=">> \o
  toString(16 + (st.quality * 240) \div 100) \o
  <<"[p]", ",", "[s1][p]paletteuse=dither=bayer:bayer_scale=5">>

CalledUnreadyAtOnce ==
  /\ nJobs' = nJobs + 1
  /\ ~isLoaded
  /\ jobs'[nJobs'].pc # "init"

\* in this step the load that handleConvert j waits for resolves, j calls
\* convertToGif, and the adapter is not ready (it was terminated meanwhile)
CalledUnreadyAfterLoad(j) ==
  /\ jobs[j].pc = "init"
  /\ jobs[j].awaits # 0
  /\ loads[jobs[j].awaits].phase # "resolved"
  /\ loads'[jobs[j].awaits].phase = "resolved"
  /\ ~isLoaded'

\* C27: convertToGif called while the adapter is not ready (never initialized,
\* loading, failed, terminated) rejects with the 'not initialized' error and
\* does nothing else: nothing is staged, the engine is not run, no progress
\* is reported.  An engine call is begun only on a ready adapter; a call on
\* an unready one ends the invocation at once with that error
C27_UnreadyConvertRejects ==
  /\ [][\A j \in JobIds :
          (jobs'[j].ec = "fetchFile" /\ jobs[j].ec # "fetchFile") => isLoaded']_vars
  /\ [][CalledUnreadyAtOnce
          => /\ jobs'[nJobs'].pc = "done"
             /\ jobs'[nJobs'].ec \notin InFlight
             /\ fs' = fs
             /\ state'.conversionStatus = "error"
             /\ state'.error.message = MSG_NOT_INIT
             /\ state'.progress = 0]_vars
  /\ [][\A j \in JobIds :
          CalledUnreadyAfterLoad(j)
            => /\ jobs'[j].pc = "done"
               /\ jobs'[j].ec \notin InFlight
               /\ fs' = fs
               /\ jobs[j].mounted
                    => /\ state'.conversionStatus = "error"
                       /\ state'.error.message = MSG_NOT_INIT
                       /\ state'.progress = 0]_vars

\* a convert on a terminated adapter has been rejected
C27_Witness ==
  /\ ~isLoaded
  /\ state.conversionStatus = "error"
  /\ state.error.message = MSG_NOT_INIT
  /\ fs = {}
  /\ nJobs >= 1

\* C28: for a time x of whole hundredths of a second, parseTime(formatTime(x))
\* is a number that differs from x by at most 0.01 s
C28_RoundTripWithinHundredth ==
  probe.fn = "roundTrip" /\ probe.done =>
    /\ probe.out.parsed.kind = "number"
    /\ probe.out.parsed.v <= probe.arg
    /\ probe.arg - probe.out.parsed.v <= 1
    /\ ~probe.out.exceeds

\* the part holds a character that is not a digit
NonNumeric(part) == \E i \in 1..Len(part) : ~IsDigit(part[i])

\* the text has a number of fields other than 1 and 2, or a non-numeric
\* component: minutes, seconds or fractional part
Malformed(text) ==
  \/ Len(text) \notin {1, 2}
  \/ \E f \in 1..Len(text) : \E p \in 1..Len(text[f]) : NonNumeric(text[f][p])

\* C29: parseTime returns null for every text with a non-numeric component or
\* with a number of ":"-fields other than 1 and 2; it returns neither a
\* number nor NaN for such a text
C29_MalformedTextIsNull ==
  probe.fn = "parseTime" /\ probe.done /\ Malformed(probe.arg) => probe.out = Null

\* the number a text stands for, or Null when it is malformed or has no
\* numeral where one is needed
Meant(text) ==
  IF Malformed(text) \/ parseTime(text).kind # "number" THEN Null ELSE parseTime(text)

\* the texts showing the time t
Shown(t) == {formatTime(t, low) : low \in BOOLEAN}

\* C30: a blur of the start or end field whose text is unparsable or breaks
\* the trim bounds (start below 0 or not below the end; end not above the
\* start or beyond the duration) leaves startTime and endTime as they were,
\* reports no time-range change, and puts the text of the unchanged time back
\* into the field; the time is not set to zero
C30_BadTextIsDiscarded ==
  /\ [][(/\ HandleStartTimeInputBlur
          /\ LET m == Meant(timeline.startTimeInput)
             IN m = Null \/ m.v < 0 \/ m.v >= timeline.localEndTime)
          => /\ state' = state
             /\ timeline'.localStartTime = timeline.localStartTime
             /\ timeline'.localEndTime = timeline.localEndTime
             /\ timeline'.startTimeInput \in Shown(timeline.localStartTime)
             /\ timeline'.endTimeInput = timeline.endTimeInput]_vars
  /\ [][(/\ HandleEndTimeInputBlur
          /\ LET m == Meant(timeline.endTimeInput)
             IN \/ m = Null
                \/ m.v <= timeline.localStartTime
                \/ m.v > MetadataOf(state.videoMetadata).duration)
          => /\ state' = state
             /\ timeline'.localStartTime = timeline.localStartTime
             /\ timeline'.localEndTime = timeline.localEndTime
             /\ timeline'.endTimeInput \in Shown(timeline.localEndTime)
             /\ timeline'.startTimeInput = timeline.startTimeInput]_vars

\* C31: for every width w in [100, 1920] and every aspect ratio r > 0,
\* calculateWidthFromHeight(calculateHeightFromWidth(w, r), r) differs from w
\* by at most 1
C31_WidthRoundTrip ==
  (probe.fn = "deriveWidth" /\ probe.done) =>
    /\ probe.out.width - probe.arg.width <= 1
    /\ probe.arg.width - probe.out.width <= 1

\* the file of the session is one of the four accepted MIME types
AcceptedType == probe.arg.type \in ACCEPTED_FORMATS

\* C32: a file (of an accepted type) of 500 MB + 1 byte is rejected at upload,
\* one of exactly 500 MB is accepted, one of 200 MB + 1 byte is accepted and
\* shown with the large-file warning, one of 200 MB or less is accepted
\* without warning; validateFile, checkFileSize and FileSizeWarning agree for
\* every size
C32_FileSizePolicy ==
  [][(state.uploadedFile = 0 /\ probe.fn = "handleFile" /\ AcceptedType) =>
       LET size     == probe.arg.size
           accepted == state'.uploadedFile # 0
           warned   == showsFileSizeWarning(state', size)
           check    == checkFileSize(size)
       IN /\ accepted <=> size <= 500 * 1024 * 1024
          /\ warned <=> (accepted /\ size > 200 * 1024 * 1024)
          /\ check.isValid <=> accepted
          /\ (check.isValid /\ check.isLarge) <=> warned
          /\ ~accepted => probe'.done /\ probe'.out = MSG_SIZE /\ state' = state]_vars

\* a file of 200 MB + 1 byte has been accepted and is shown with the warning
C32_Witness ==
  /\ probe.fn = "handleFile" /\ AcceptedType
  /\ probe.arg.size = 200 * 1024 * 1024 + 1
  /\ showsFileSizeWarning(state, probe.arg.size)

\* the file of the session is one the upload must turn away
Rejected == ~AcceptedType \/ probe.arg.size > 500 * 1024 * 1024

\* C33: a file rejected at upload (MIME type not one of the four accepted
\* ones, or size over 500 MB) is never handed to the orchestrator: no file
\* selection, the orchestrator state unchanged, no engine initialize or
\* convert; a file of an accepted type and of at most 500 MB is accepted
\* whenever the zone is enabled
C33_RejectedFileNotHandedOn ==
  [][(state.uploadedFile = 0 /\ probe.fn = "handleFile") =>
       /\ Rejected => /\ state' = state
                      /\ nLoads' = nLoads /\ initPromise' = initPromise
                      /\ nJobs' = nJobs /\ jobs' = jobs
       /\ ~Rejected => state'.uploadedFile = probe.arg.id]_vars

\* the source name up to its extension: the extension starts at the last "."
\* when at least one character follows it and no "/" does
Stem(name) ==
  LET dots == {i \in 1..Len(name) : name[i] = "."}
      last == CHOOSE i \in dots : \A j \in dots : j <= i
  IN IF dots = {} \/ last = Len(name)
        \/ \E j \in (last + 1)..Len(name) : name[j] = "/"
     THEN name
     ELSE SubSeq(name, 1, last - 1)

\* text with every character other than letters, digits, dash and underscore
\* replaced by an underscore, character by character
IsSanitized(text, from) ==
  /\ Len(text) = Len(from)
  /\ \A i \in 1..Len(from) :
        text[i] = (IF from[i] \in {"a", "Z", "g", "i", "f", "1", "-", "_"}
                   THEN from[i] ELSE "_")

DerivedName(offered, source) ==
  /\ Len(offered) >= 4
  /\ SubSeq(offered, Len(offered) - 3, Len(offered)) = <<".", "g", "i", "f">>
  /\ IsSanitized(SubSeq(offered, 1, Len(offered) - 4), Stem(source))

\* C34: for every source file name, the download file name offered for the GIF
\* is the source name with its extension stripped, every character other than
\* letters, digits, dash and underscore replaced by an underscore, and ".gif"
\* appended; it ends in ".gif" also for a source name without an extension
C34_DownloadName ==
  (probe.fn = "downloadNames" /\ probe.done) =>
    /\ DerivedName(probe.out.utility, probe.arg)
    /\ DerivedName(probe.out.page, probe.arg)

\* C35: the settings derived on metadata arrival satisfy the validator's
\* bounds: for every source metadata with positive width and height (also
\* sources narrower than 100 px and very wide or very tall ones) the default
\* width and the derived height both lie in [100, 1920]
C35_DefaultsWithinBounds ==
  (probe.fn = "setMetadata" /\ probe.done) =>
    /\ probe.out.settings.width >= 100 /\ probe.out.settings.width <= 1920
    /\ probe.out.settings.height >= 100 /\ probe.out.settings.height <= 1920
    /\ probe.out.defaults.width >= 100 /\ probe.out.defaults.width <= 1920
    /\ probe.out.defaults.height >= 100 /\ probe.out.defaults.height <= 1920

\* C36: every convert invocation made with a file and metadata present
\* eventually reaches conversionStatus complete or error, given that timers
\* fire: the orchestrator never stays in loading or processing forever,
\* whatever the engine load or the engine conversion does
C36_ConvertSettles ==
  (Status \in {"loading", "processing"}) ~> (Status \in {"complete", "error"})


\* C37: handleConvert calls convertToGif only on a ready adapter: in no step
\* does an invocation that has passed its lazy-initialization step without
\* error (at once, or when the load it waited for resolves) reach the call of
\* convertToGif while ffmpegService.isLoaded() is false, whatever conversions,
\* resets and unmount/remount cycles came before
C37_ConvertOnlyWhenReady ==
  [][/\ ~CalledUnreadyAtOnce
     /\ \A j \in JobIds : ~CalledUnreadyAfterLoad(j)]_vars

\* in this step the engine call of job j, the only one in flight, calls its
\* onProgress: from its log listener, or the final onProgress(100)
OnProgressOf(j) ==
  /\ \A k \in JobIds \ {j} : jobs[k].ec \notin InFlight
  /\ \/ \E p \in ProgressValues : Progress(j, p)
     \/ DeleteOutputDone(j)

\* job j has reached its outcome at the page (handleConvert has returned)
Finished(j) == jobs[j].pc = "done"

\* C38: once a job has reached its outcome at the page (complete, engine error
\* or timeout), no onProgress call that belongs to it changes state.progress
C38_NoStaleProgress ==
  [][\A j \in JobIds :
       Finished(j) /\ OnProgressOf(j) => state'.progress = state.progress]_vars

\* C39: in every reachable state of the page, conversionStatus is "error"
\* exactly when state.error is not null - also after the error is dismissed,
\* after a retry is started, after a file is selected and after a reset
C39_ErrorStatusIffError ==
  (state.conversionStatus = "error") <=> (state.error.type # "none")
====
